---------------------------- MODULE Spec2Model ----------------------------
(***************************************************************************)
(* BoTCoin: the live Position Engine (src/main.py) with its strategy       *)
(* formulas (src/strategies/onek.py, src/strategies/dualk.py), the         *)
(* persisted stores (src/core/state.py) and the exchange collaborator      *)
(* (specification Spec); the calibration, the pivot detection and the      *)
(* Simulator of src/trading and src/utils, each run on bounded inputs      *)
(* (specification SpecTools); the engine of one filled order interleaved   *)
(* with the command handlers of src/services/telegram.py (specification    *)
(* SpecControl).                                                           *)
(*                                                                         *)
(* Units.  Python floats are modelled by exact integers:                   *)
(*   prices (round(x, 1))   : tenths of the quote currency (0.1)           *)
(*   raw ATR                : hundredths of the quote currency (0.01)      *)
(*   balance                : asset in 1e-8, fiat in hundredths            *)
(*   K_ACT, K_STOP, ATR_MULT: tenths (45 = 4.5)                            *)
(*   MIN_MARGIN             : 1/10000 (100 = 0.01)                         *)
(*   volume                 : 1e-8 of the base asset                       *)
(*   cost                   : hundredths of the quote currency (0.01)      *)
(*   pnl                    : hundredths of a percent (275 = 2.75%)        *)
(* round(x, n) is round-half-even on the exact value.                      *)
(***************************************************************************)
EXTENDS Integers, Sequences, FiniteSets, TLC

VARIABLES
    cfg,        \* environment configuration read by core/config.py
    disk,       \* data/trailing_state.json : position id -> position
    closedDisk, \* data/closed_positions.json : set of closed entries
    mem,        \* trailing_state of the session in progress
    pc,         \* position of the main loop
    pairs,      \* pairs still to be visited by the loop of the session
    queue,      \* closed orders still to be handled in this session
    todo,       \* positions still to be visited by update_trailing_state
    price,      \* current_price of the session
    atr,        \* current_atr of the session
    balance,    \* current_balance of the session
    age,        \* exchange: order id -> loop iterations since it filled
    placed,     \* exchange: closing orders accepted, per position id
    sessions,   \* number of loop iterations started
    everLive,   \* history: ids of the positions ever saved to trailing_state.json
    ev,         \* history: what the last step did
    call,       \* offline tools: the last function call, its inputs and result
    bot_paused, \* services/telegram.py: the pause flag _bot_paused
    reply       \* control thread: the last reply_text of a command handler

vars == <<cfg, disk, closedDisk, mem, pc, pairs, queue, todo, price, atr, balance,
          age, placed, sessions, everLive, ev, call, bot_paused, reply>>

-----------------------------------------------------------------------------
(* Bounds of the model *)

MaxSessions == 3

(* Absent dictionary key / None *)
Absent == 0

PAIR == "XBTEUR"

(* PAIRS.keys() in the order of the loop of main *)
PAIRS == <<"ETHEUR", "XBTEUR">>

(* Filled orders the exchange may report (id -> order) *)
OrderIds == {"O1", "O2", "O3"}

OrderSeq == <<"O1", "O2", "O3">>

OrderInfo(o) ==
    CASE o = "O1" -> [pair |-> PAIR, type |-> "buy",  price |-> 200000,
                      vol_exec |-> 1000, cost |-> 20]
      [] o = "O2" -> [pair |-> PAIR, type |-> "sell", price |-> 200000,
                      vol_exec |-> 1000, cost |-> 20]
      [] o = "O3" -> [pair |-> PAIR, type |-> "buy",  price |-> 200500,
                      vol_exec |-> 500, cost |-> 10]

Prices == {192000, 195000, 205000, 208000}

Atrs == {10000, 13004}

(* the market of each pair: no order of the account is on ETHEUR *)
PricesOf(pair) == IF pair = PAIR THEN Prices ELSE {15000}

AtrsOf(pair) == IF pair = PAIR THEN Atrs ELSE {800}

Balances == { [asset |-> 1000, fiat |-> 0],
              [asset |-> 3000, fiat |-> 0],
              [asset |-> 0,    fiat |-> 0] }

(* get_balance() returned {} *)
NoBalance == [asset |-> -1, fiat |-> -1]

(* Configurations: MODE, the trading parameters of both sides, the       *)
(* recenter parameters (PRICE_PCT in 1/10000) and the minimum allocation  *)
(* (numerator over MIN_ALLOC_D)                                            *)
Config(mode, min_margin, atr_mult, price_pct, min_alloc_n) ==
    [MODE |-> mode, K_ACT |-> 45, K_STOP |-> 25, MIN_MARGIN |-> min_margin,
     ATR_MULT |-> atr_mult, PRICE_PCT |-> price_pct,
     MIN_ALLOC_N |-> min_alloc_n, MIN_ALLOC_D |-> 2]

Configs == { Config("onek", 100, 0, 0, 1),
             Config("dualk", 100, 60, 300, 1),
             Config("dualk", 0, 0, 0, 0) }

-----------------------------------------------------------------------------
(* Arithmetic helpers *)

Abs(x) == IF x < 0 THEN -x ELSE x

Min(a, b) == IF a <= b THEN a ELSE b

Max(a, b) == IF a >= b THEN a ELSE b

(* round(n/d) to the nearest integer, ties to even; d > 0 *)
RoundDiv(n, d) ==
    LET q == n \div d
        r == n % d
    IN  IF 2 * r < d THEN q
        ELSE IF 2 * r > d THEN q + 1
        ELSE IF q % 2 = 0 THEN q ELSE q + 1

(* b + n/d rounded to the nearest integer, ties to even; d > 0 *)
RoundAdd(b, n, d) ==
    LET q == n \div d
        r == n % d
        c == b + q
    IN  IF 2 * r < d THEN c
        ELSE IF 2 * r > d THEN c + 1
        ELSE IF c % 2 = 0 THEN c ELSE c + 1

(* A float: b tenths plus n/d tenths *)
Real(b, n, d) == [b |-> b, n |-> n, d |-> d]

(* round(x, 1) of a price *)
Round1(x) == RoundAdd(x.b, x.n, x.d)

(* round(atr_val, 1): hundredths to tenths *)
RoundAtr(a) == RoundDiv(a, 10)

-----------------------------------------------------------------------------
(* Strategies.  A distance is n/d tenths of the quote currency. *)

Params(side) == [K_ACT |-> cfg.K_ACT, K_STOP |-> cfg.K_STOP,
                 MIN_MARGIN |-> cfg.MIN_MARGIN]

(* onek: k_stop * atr_val + min_margin * entry_price, over 100000 *)
onek_calculate_activation_dist(side, atr_val, entry_price) ==
    [n |-> 1000 * Params(side).K_STOP * atr_val
             + 10 * Params(side).MIN_MARGIN * entry_price,
     d |-> 100000]

(* dualk: K_ACT * atr_value, over 100 *)
dualk_calculate_activation_dist(side, atr_value) ==
    [n |-> Params(side).K_ACT * atr_value, d |-> 100]

calculate_activation_dist(side, atr_val, reference_price) ==
    IF cfg.MODE = "onek"
    THEN onek_calculate_activation_dist(side, atr_val, reference_price)
    ELSE dualk_calculate_activation_dist(side, atr_val)

(* process_order without the side flip *)
process_order_same_side(side, entry_price, atr_val) ==
    LET sign == IF side = "buy" THEN 1 ELSE -1
        dist == calculate_activation_dist(side, atr_val, entry_price)
    IN  [new_side |-> side,
         atr_value |-> atr_val,
         activation_price |-> Real(entry_price, sign * dist.n, dist.d)]

(* process_order of both strategies: the side flips, the activation price *)
(* is entry_price + sign * activation_distance                            *)
process_order(side, entry_price, atr_val) ==
    LET new_side == IF side = "buy" THEN "sell" ELSE "buy"
        sign     == IF side = "buy" THEN 1 ELSE -1
        dist     == calculate_activation_dist(new_side, atr_val, entry_price)
    IN  [new_side |-> new_side,
         atr_value |-> atr_val,
         activation_price |-> Real(entry_price, sign * dist.n, dist.d)]

(* onek: trailing_ref_price -/+ K_STOP * atr_val *)
onek_calculate_stop_price(side, trailing_ref_price, atr_val) ==
    LET stop_distance == Params(side).K_STOP * atr_val
    IN  IF side = "sell"
        THEN Real(trailing_ref_price, -stop_distance, 100)
        ELSE Real(trailing_ref_price, stop_distance, 100)

(* dualk: the stop distance is clamped to the room left above the        *)
(* minimum margin; everything over 100000                                 *)
dualk_calculate_stop_price(side, entry_price, trailing_ref_price, atr_val) ==
    LET raw        == 1000 * Params(side).K_STOP * atr_val
        min_margin == 10 * entry_price * Params(side).MIN_MARGIN
        max_space  == IF side = "sell"
                      THEN (trailing_ref_price - entry_price) * 100000 - min_margin
                      ELSE (entry_price - trailing_ref_price) * 100000 - min_margin
        stop_distance == IF min_margin # 0
                         THEN Min(raw, Max(0, max_space))
                         ELSE raw
    IN  IF side = "sell"
        THEN Real(trailing_ref_price, -stop_distance, 100000)
        ELSE Real(trailing_ref_price, stop_distance, 100000)

(* dualk calculate_atr_value as main.py calls it *)
calculate_atr_value(side, current_price, current_atr) == current_atr

-----------------------------------------------------------------------------
(* src/main.py: helpers of the Position Engine *)

(* pos.get("trailing_price") is not None *)
trailing_active(pos) == pos.trailing_price # Absent

get_reference_price(pos) ==
    IF pos.reference_price = Absent THEN pos.entry_price ELSE pos.reference_price

(* core/state.py is_processed: the order opened a live position *)
is_processed(order_id, state) ==
    \E k \in DOMAIN state :
        \E i \in 1..Len(state[k].opening_order) : state[k].opening_order[i] = order_id

(* a deviation test that counts the edges of the band as deviating *)
atr_deviates_inclusive(stored_atr, atr_val) ==
    8 * stored_atr >= atr_val \/ atr_val >= 12 * stored_atr

(* The float bands 0.8 * stored_atr > atr_val or atr_val > 1.2 * stored_atr, *)
(* stored_atr in tenths, atr_val in hundredths                               *)
atr_deviates(stored_atr, atr_val) ==
    8 * stored_atr > atr_val \/ atr_val > 12 * stored_atr

calculate_activation_price(pos, atr_val) ==
    LET side            == pos.side
        reference_price == get_reference_price(pos)
        dist            == calculate_activation_dist(side, atr_val, reference_price)
        activation_price == IF side = "sell"
                            THEN Real(reference_price, dist.n, dist.d)
                            ELSE Real(reference_price, -dist.n, dist.d)
    IN  [pos EXCEPT !.activation_price = Round1(activation_price),
                    !.activation_atr   = RoundAtr(atr_val)]

calculate_stop_price(pos, atr_val, trailing_price) ==
    LET side            == pos.side
        reference_price == get_reference_price(pos)
        stop_price == IF cfg.MODE = "onek"
                      THEN onek_calculate_stop_price(side, trailing_price, atr_val)
                      ELSE dualk_calculate_stop_price(side, reference_price,
                                                      trailing_price, atr_val)
    IN  [pos EXCEPT !.trailing_price = trailing_price,
                    !.stop_price     = Round1(stop_price),
                    !.stop_atr       = RoundAtr(atr_val)]

(* thresholds over 1e-5 of the quote currency *)
check_recenter_activation(pos, atr_val, current_price) ==
    LET atr_threshold   == cfg.ATR_MULT * atr_val * 100
        price_threshold == cfg.PRICE_PCT * current_price
        max_threshold   == Max(atr_threshold, price_threshold)
    IN  /\ max_threshold > 0
        /\ Abs(pos.activation_price - current_price) * 10000 > max_threshold

(* asset value after the sale, over 1e-9 of the quote currency *)
asset_value_after(vol_to_sell, current_balance, current_price) ==
    (current_balance.asset - vol_to_sell) * current_price

total_value_after(vol_to_sell, current_balance, current_price) ==
    asset_value_after(vol_to_sell, current_balance, current_price)
      + (current_balance.fiat * 10000000 + vol_to_sell * current_price)

(* the gate evaluated on the holding before the sale *)
can_execute_sell_presale(vol_to_sell, current_balance, current_price) ==
    LET total == total_value_after(vol_to_sell, current_balance, current_price)
    IN  IF total = 0 THEN TRUE
        ELSE ~ ( current_balance.asset * current_price * cfg.MIN_ALLOC_D
                    < cfg.MIN_ALLOC_N * total )

can_execute_sell(vol_to_sell, current_balance, current_price) ==
    LET total == total_value_after(vol_to_sell, current_balance, current_price)
    IN  IF total = 0 THEN TRUE
        ELSE ~ ( asset_value_after(vol_to_sell, current_balance, current_price)
                    * cfg.MIN_ALLOC_D < cfg.MIN_ALLOC_N * total )

(* pnl in hundredths of a percent: round(pnl, 2) *)
close_pnl(pos) ==
    IF pos.side = "sell"
    THEN RoundDiv((pos.stop_price - pos.entry_price) * 10000, pos.entry_price)
    ELSE RoundDiv((pos.entry_price - pos.stop_price) * 10000, pos.entry_price)

(* the pos.update(...) of close_position once the order is placed *)
close_update(pos) ==
    LET cost   == IF pos.side = "sell"
                  THEN RoundDiv(pos.volume * pos.stop_price, 10000000)
                  ELSE pos.cost
        volume == IF pos.side = "sell"
                  THEN pos.volume
                  ELSE RoundDiv(pos.cost * 10000000, pos.stop_price)
    IN  [pos EXCEPT !.cost = cost, !.volume = volume,
                    !.closing_time = TRUE, !.pnl = close_pnl(pos)]

(* an abort that keeps the pos.update of a completed close *)
close_aborted_updated(pos) ==
    [pos EXCEPT !.closing_time = TRUE, !.pnl = close_pnl(pos)]

(* close_position, lines 227-229: the return before pos.update leaves the *)
(* position as it was                                                     *)
close_aborted(pos) == pos

(* the stop condition of update_trailing_state, without the inventory gate *)
stop_hit(pos, current_price) ==
    \/ pos.side = "sell" /\ current_price <= pos.stop_price
    \/ pos.side = "buy"  /\ current_price >= pos.stop_price

(* the close condition of update_trailing_state, lines 276-277 *)
close_condition(pos, current_price, current_balance) ==
    \/ /\ pos.side = "sell"
       /\ current_price <= pos.stop_price
       /\ can_execute_sell(pos.volume, current_balance, current_price)
    \/ pos.side = "buy" /\ current_price >= pos.stop_price

activation_reached(pos, current_price) ==
    \/ pos.side = "sell" /\ current_price >= pos.activation_price
    \/ pos.side = "buy"  /\ current_price <= pos.activation_price

(* a trailing step on every price change *)
trail_condition_any_move(pos, current_price) ==
    current_price # pos.trailing_price

trail_condition(pos, current_price) ==
    \/ pos.side = "sell" /\ current_price > pos.trailing_price
    \/ pos.side = "buy"  /\ current_price < pos.trailing_price

-----------------------------------------------------------------------------
(* Dictionaries *)

Empty == <<>>

Put(f, k, v) == [x \in (DOMAIN f) \cup {k} |-> IF x = k THEN v ELSE f[x]]

Del(f, k) == [x \in (DOMAIN f) \ {k} |-> f[x]]

(* the ids of S in the order of OrderSeq *)
RECURSIVE InOrder(_, _)
InOrder(seq, S) ==
    IF seq = <<>> THEN <<>>
    ELSE IF Head(seq) \in S THEN <<Head(seq)>> \o InOrder(Tail(seq), S)
    ELSE InOrder(Tail(seq), S)

Event(kind, id, oprice) == [kind |-> kind, id |-> id, oprice |-> oprice]

NoEvent == Event("none", "", Absent)

(* no offline tool has run *)
NoCall == [op |-> "none"]

(* trailing_state[pair]: the positions of the pair *)
pair_state_of(state, pair) ==
    [k \in {x \in DOMAIN state : OrderInfo(x).pair = pair} |-> state[k]]

(* trailing_state with trailing_state[pair] replaced by pair_state *)
with_pair_state(state, pair, pair_state) ==
    [k \in {x \in DOMAIN state : OrderInfo(x).pair # pair} \cup DOMAIN pair_state
        |-> IF k \in DOMAIN pair_state THEN pair_state[k] ELSE state[k]]

(* the loop of main goes on with the next pair, or the session is saved *)
next_pc(remaining) == IF remaining = <<>> THEN "save" ELSE "pair"

(* time.sleep(SLEEPING_INTERVAL): every filled order is one iteration older *)
Aged == [o \in OrderIds |-> IF age[o] < 0 THEN age[o] ELSE Min(age[o] + 1, 2)]

-----------------------------------------------------------------------------
(* process_closed_order *)

(* a search that also takes the positions already activated *)
merge_candidates_any_state(pair_state, new_side, entry_price) ==
    { k \in DOMAIN pair_state :
        /\ pair_state[k].side = new_side
        /\ Abs(get_reference_price(pair_state[k]) - entry_price) * 200
              < get_reference_price(pair_state[k]) }

(* the pending position of the new side within 0.5% of the order's price *)
merge_candidates(pair_state, new_side, entry_price) ==
    { k \in DOMAIN pair_state :
        /\ pair_state[k].side = new_side
        /\ ~trailing_active(pair_state[k])
        /\ Abs(get_reference_price(pair_state[k]) - entry_price) * 200
              < get_reference_price(pair_state[k]) }

(* a merge that sums both totals *)
merged_position_sums(existing_pos, order_id, new_side, volume, cost) ==
    [existing_pos EXCEPT !.volume = @ + volume, !.cost = @ + cost,
                         !.opening_order = Append(@, order_id)]

(* lines 107-119: the volume (sell) or the cost (buy) is summed, the other *)
(* total follows from the entry price of the existing position             *)
merged_position(existing_pos, order_id, new_side, volume, cost) ==
    LET new_volume == IF new_side = "sell"
                      THEN existing_pos.volume + volume
                      ELSE RoundDiv((existing_pos.cost + cost) * 10000000,
                                    existing_pos.entry_price)
        new_cost   == IF new_side = "sell"
                      THEN RoundDiv((existing_pos.volume + volume)
                                       * existing_pos.entry_price, 10000000)
                      ELSE existing_pos.cost + cost
    IN  [existing_pos EXCEPT !.volume = new_volume, !.cost = new_cost,
                             !.opening_order = Append(@, order_id)]

new_position(order_id, order, current_atr) ==
    LET r == process_order(order.type, order.price, current_atr)
    IN  [side |-> r.new_side,
         opening_order |-> <<order_id>>,
         entry_price |-> order.price,
         volume |-> order.vol_exec,
         cost |-> order.cost,
         activation_atr |-> RoundAtr(r.atr_value),
         activation_price |-> Round1(r.activation_price),
         reference_price |-> Absent,
         activation_time |-> FALSE,
         trailing_price |-> Absent,
         stop_price |-> Absent,
         stop_atr |-> Absent,
         closing_time |-> FALSE,
         pnl |-> 0]

process_closed_order(order_id, order, pair_state, current_atr) ==
    LET r     == process_order(order.type, order.price, current_atr)
        cands == InOrder(OrderSeq,
                         merge_candidates(pair_state, r.new_side, order.price))
    IN  IF cands # <<>>
        THEN Put(pair_state, Head(cands),
                 merged_position(pair_state[Head(cands)], order_id, r.new_side,
                                 order.vol_exec, order.cost))
        ELSE Put(pair_state, order_id, new_position(order_id, order, current_atr))

-----------------------------------------------------------------------------
(* update_trailing_state: one iteration of its loop over the positions *)

(* lines 251-269: recenter, recalibrate, activate *)
pending_step(pos, atr_val, current_price) ==
    LET p1 == IF check_recenter_activation(pos, atr_val, current_price)
              THEN calculate_activation_price(
                       [pos EXCEPT !.reference_price = current_price], atr_val)
              ELSE pos
        p2 == IF atr_deviates(p1.activation_atr, atr_val)
              THEN calculate_activation_price(p1, atr_val)
              ELSE p1
    IN  IF activation_reached(p2, current_price)
        THEN calculate_stop_price(
                 [p2 EXCEPT !.stop_atr = p2.activation_atr,
                            !.activation_time = TRUE],
                 atr_val, current_price)
        ELSE p2

(* a recalibration that takes the current price as trailing price *)
recalibrated_at_price(pos, atr_val) ==
    IF atr_deviates(pos.stop_atr, atr_val)
    THEN calculate_stop_price(pos, atr_val, price)
    ELSE pos

(* lines 272-274: recalibrate the stop from the existing trailing price *)
recalibrated(pos, atr_val) ==
    IF atr_deviates(pos.stop_atr, atr_val)
    THEN calculate_stop_price(pos, atr_val, pos.trailing_price)
    ELSE pos

(* a trailing step that keeps the stored trailing price *)
trailed_from_stored(pos, atr_val, current_price) ==
    IF trail_condition(pos, current_price)
    THEN calculate_stop_price(pos, atr_val, pos.trailing_price)
    ELSE pos

(* lines 281-284: advance the trailing price *)
trailed(pos, atr_val, current_price) ==
    IF trail_condition(pos, current_price)
    THEN calculate_stop_price(pos, atr_val, current_price)
    ELSE pos

AtrVal(pos) ==
    IF cfg.MODE = "dualk"
    THEN calculate_atr_value(pos.side, price, atr)
    ELSE atr

(* no command has been answered *)
NoReply == [cmd |-> "none"]

(* a main loop that does not look at the pause flag *)
paused_never == FALSE

(* main, line 21: the read of the pause flag at the start of an iteration *)
paused_at_start == bot_paused

-----------------------------------------------------------------------------
(* Initial state: nothing persisted, no order filled *)

Init ==
    /\ cfg \in Configs
    /\ disk = Empty
    /\ closedDisk = {}
    /\ mem = Empty
    /\ pc = "idle"
    /\ pairs = <<>>
    /\ queue = <<>>
    /\ todo = <<>>
    /\ price = Absent
    /\ atr = Absent
    /\ balance = NoBalance
    /\ age = [o \in OrderIds |-> -1]
    /\ placed = [o \in OrderIds |-> 0]
    /\ sessions = 0
    /\ everLive = {}
    /\ ev = NoEvent
    /\ call = NoCall
    /\ bot_paused = FALSE
    /\ reply = NoReply

(* the exchange fills an order of the account *)
Fill(o) ==
    /\ pc = "idle"
    /\ age[o] < 0
    /\ age' = [age EXCEPT ![o] = 0]
    /\ ev' = NoEvent
    /\ UNCHANGED <<bot_paused, reply, call, cfg, everLive, pairs, disk, closedDisk, mem, pc, queue, todo, price, atr,
                   balance, placed, sessions>>

(* main, lines 26-33 with a balance: load_trailing_state, get_balance *)
StartSession ==
    /\ pc = "idle"
    /\ ~paused_at_start
    /\ sessions < MaxSessions
    /\ \E b \in Balances : balance' = b
    /\ mem' = disk
    /\ pc' = "pair"
    /\ pairs' = PAIRS
    /\ sessions' = sessions + 1
    /\ ev' = NoEvent
    /\ UNCHANGED <<bot_paused, reply, call, cfg, everLive, disk, closedDisk, queue, todo, price, atr, age, placed>>

(* main, lines 30-33: no balance, the session is skipped *)
SkipSession ==
    /\ pc = "idle"
    /\ ~paused_at_start
    /\ sessions < MaxSessions
    /\ sessions' = sessions + 1
    /\ age' = Aged
    /\ ev' = NoEvent
    /\ UNCHANGED <<bot_paused, reply, call, cfg, everLive, pairs, disk, closedDisk, mem, pc, queue, todo, price, atr,
                   balance, placed>>

(* main, lines 39-52: price, ATR and the closed orders of the window *)
FetchMarket ==
    /\ pc = "pair"
    /\ pairs # <<>>
    /\ \E p \in PricesOf(Head(pairs)), a \in AtrsOf(Head(pairs)), ok \in BOOLEAN,
          late \in SUBSET {o \in OrderIds : age[o] = 1} :
          /\ price' = p
          /\ atr' = a
          /\ queue' = IF ok
                      THEN InOrder(OrderSeq, {o \in OrderIds : age[o] = 0} \cup late)
                      ELSE <<>>
    /\ pc' = "orders"
    /\ ev' = NoEvent
    /\ UNCHANGED <<bot_paused, reply, call, cfg, everLive, pairs, disk, closedDisk, mem, todo, balance, age, placed,
                   sessions>>

(* a failed fetch that goes on with the price and ATR already in hand *)
SkipPairStale ==
    /\ pc = "pair"
    /\ pairs # <<>>
    /\ queue' = <<>>
    /\ pc' = "orders"
    /\ ev' = NoEvent
    /\ UNCHANGED <<bot_paused, reply, call, cfg, everLive, pairs, disk, closedDisk, mem, todo, price, atr,
                   balance, age, placed, sessions>>

(* main, lines 42-44: no price or no ATR, the pair is skipped *)
SkipPair ==
    /\ pc = "pair"
    /\ pairs # <<>>
    /\ pairs' = Tail(pairs)
    /\ pc' = next_pc(Tail(pairs))
    /\ ev' = NoEvent
    /\ UNCHANGED <<bot_paused, reply, call, cfg, everLive, disk, closedDisk, mem, queue, todo, price, atr, balance,
                   age, placed, sessions>>

(* main, lines 54-60: one closed order *)
ProcessOrder ==
    /\ pc = "orders"
    /\ queue # <<>>
    /\ LET o == Head(queue)
           pair       == Head(pairs)
           pair_state == pair_state_of(mem, pair)
       IN  IF OrderInfo(o).pair # pair \/ is_processed(o, pair_state)
           THEN /\ mem' = mem
                /\ ev' = Event("seen", o, Absent)
           ELSE /\ mem' = with_pair_state(mem, pair,
                             process_closed_order(o, OrderInfo(o), pair_state, atr))
                /\ ev' = Event(IF o \in DOMAIN mem' THEN "create" ELSE "merge",
                               o, Absent)
    /\ queue' = Tail(queue)
    /\ UNCHANGED <<bot_paused, reply, call, cfg, everLive, pairs, disk, closedDisk, pc, todo, price, atr, balance, age,
                   placed, sessions>>

(* main, line 62 and line 244: list(pair_state.items()) *)
BeginUpdate ==
    /\ pc = "orders"
    /\ queue = <<>>
    /\ todo' = InOrder(OrderSeq, DOMAIN pair_state_of(mem, Head(pairs)))
    /\ pc' = "update"
    /\ ev' = NoEvent
    /\ UNCHANGED <<bot_paused, reply, call, cfg, everLive, pairs, disk, closedDisk, mem, queue, price, atr, balance, age,
                   placed, sessions>>

(* lines 251-269: a pending position *)
UpdatePending ==
    /\ pc = "update"
    /\ todo # <<>>
    /\ LET id  == Head(todo)
           pos == mem[id]
           new == pending_step(pos, AtrVal(pos), price)
       IN  /\ ~trailing_active(pos)
           /\ mem' = [mem EXCEPT ![id] = new]
           /\ ev' = Event(IF trailing_active(new) THEN "activate" ELSE "pending",
                          id, Absent)
    /\ todo' = Tail(todo)
    /\ UNCHANGED <<bot_paused, reply, call, cfg, everLive, pairs, disk, closedDisk, pc, queue, price, atr, balance, age,
                   placed, sessions>>

(* lines 271-284 when close_position is not called: the stop is not hit, *)
(* or the inventory gate blocks the sell                                 *)
UpdateActive ==
    /\ pc = "update"
    /\ todo # <<>>
    /\ LET id  == Head(todo)
           pos == mem[id]
           p1  == recalibrated(pos, AtrVal(pos))
           new == trailed(p1, AtrVal(pos), price)
       IN  /\ trailing_active(pos)
           /\ ~close_condition(p1, price, balance)
           /\ mem' = [mem EXCEPT ![id] = new]
           /\ ev' = Event(IF stop_hit(p1, price) THEN "blocked"
                          ELSE IF trail_condition(p1, price) THEN "trail"
                          ELSE "hold", id, Absent)
    /\ todo' = Tail(todo)
    /\ UNCHANGED <<bot_paused, reply, call, cfg, everLive, pairs, disk, closedDisk, pc, queue, price, atr, balance, age,
                   placed, sessions>>

(* close_position, lines 226-229: place_limit_order returns no order id *)
CloseOrderFailed ==
    /\ pc = "update"
    /\ todo # <<>>
    /\ LET id  == Head(todo)
           pos == mem[id]
           p1  == recalibrated(pos, AtrVal(pos))
       IN  /\ trailing_active(pos)
           /\ close_condition(p1, price, balance)
           /\ mem' = [mem EXCEPT ![id] = close_aborted(p1)]
           /\ ev' = Event("place_failed", id, p1.stop_price)
    /\ todo' = Tail(todo)
    /\ UNCHANGED <<bot_paused, reply, call, cfg, everLive, pairs, disk, closedDisk, pc, queue, price, atr, balance, age,
                   placed, sessions>>

(* close_position, lines 226-240: the order is placed, the closed position *)
(* is saved and the position is deleted from pair_state                    *)
CloseDone ==
    /\ pc = "update"
    /\ todo # <<>>
    /\ LET id  == Head(todo)
           pos == mem[id]
           p1  == recalibrated(pos, AtrVal(pos))
       IN  /\ trailing_active(pos)
           /\ close_condition(p1, price, balance)
           /\ placed' = [placed EXCEPT ![id] = @ + 1]
           /\ closedDisk' = closedDisk \cup
                  {[order |-> <<id, placed[id] + 1>>, id |-> id,
                    pos |-> close_update(p1)]}
           /\ mem' = Del(mem, id)
           /\ ev' = Event("closed", id, p1.stop_price)
    /\ todo' = Tail(todo)
    /\ UNCHANGED <<bot_paused, reply, call, cfg, everLive, pairs, disk, pc, queue, price, atr, balance, age, sessions>>

(* close_position, lines 226-242: the order is placed, save_closed_position *)
(* raises and the handler of line 241 swallows the exception                *)
CloseSaveFailed ==
    /\ pc = "update"
    /\ todo # <<>>
    /\ LET id  == Head(todo)
           pos == mem[id]
           p1  == recalibrated(pos, AtrVal(pos))
       IN  /\ trailing_active(pos)
           /\ close_condition(p1, price, balance)
           /\ placed' = [placed EXCEPT ![id] = @ + 1]
           /\ mem' = [mem EXCEPT ![id] = close_update(p1)]
           /\ ev' = Event("save_failed", id, p1.stop_price)
    /\ todo' = Tail(todo)
    /\ UNCHANGED <<bot_paused, reply, call, cfg, everLive, pairs, disk, closedDisk, pc, queue, price, atr, balance, age,
                   sessions>>

(* main, lines 63-64: the loop over the positions is over *)
EndUpdate ==
    /\ pc = "update"
    /\ todo = <<>>
    /\ pairs' = Tail(pairs)
    /\ pc' = next_pc(Tail(pairs))
    /\ ev' = NoEvent
    /\ UNCHANGED <<bot_paused, reply, call, cfg, everLive, disk, closedDisk, mem, queue, todo, price, atr, balance,
                   age, placed, sessions>>

(* main, lines 65-68: save_trailing_state, then sleep *)
SaveState ==
    /\ pc = "save"
    /\ disk' = mem
    /\ mem' = Empty
    /\ pc' = "idle"
    /\ price' = Absent
    /\ atr' = Absent
    /\ balance' = NoBalance
    /\ age' = Aged
    /\ everLive' = everLive \cup DOMAIN mem
    /\ ev' = NoEvent
    /\ UNCHANGED <<bot_paused, reply, call, cfg, pairs, closedDisk, queue, todo, placed, sessions>>

(* the process stops inside a session and is started again, the pause *)
(* flag of the new process being False                                *)
Crash ==
    /\ pc # "idle"
    /\ mem' = Empty
    /\ pc' = "idle"
    /\ pairs' = <<>>
    /\ queue' = <<>>
    /\ todo' = <<>>
    /\ price' = Absent
    /\ atr' = Absent
    /\ balance' = NoBalance
    /\ ev' = NoEvent
    /\ bot_paused' = FALSE
    /\ UNCHANGED <<reply, call, cfg, everLive, disk, closedDisk, age, placed, sessions>>

Next ==
    \/ \E o \in OrderIds : Fill(o)
    \/ StartSession
    \/ SkipSession
    \/ FetchMarket
    \/ SkipPair
    \/ ProcessOrder
    \/ BeginUpdate
    \/ UpdatePending
    \/ UpdateActive
    \/ CloseOrderFailed
    \/ CloseDone
    \/ CloseSaveFailed
    \/ EndUpdate
    \/ SaveState
    \/ Crash

Spec == Init /\ [][Next]_vars

-----------------------------------------------------------------------------
(* src/services/telegram.py: the command handlers of the control thread,  *)
(* each an atomic step between two steps of the main loop                 *)

(* main, lines 21-24: the flag is set, the iteration sleeps and continues *)
PausedIteration ==
    /\ pc = "idle"
    /\ paused_at_start
    /\ sessions < MaxSessions
    /\ sessions' = sessions + 1
    /\ age' = Aged
    /\ ev' = Event("paused", "", Absent)
    /\ UNCHANGED <<bot_paused, reply, call, cfg, everLive, pairs, disk, closedDisk, mem, pc,
                   queue, todo, price, atr, balance, placed>>

(* main, line 21 with the telegram.py of src, which keeps the flag in     *)
(* _bot_paused and has no attribute BOT_PAUSED: the read raises            *)
(* AttributeError, which main does not catch, and the process ends with    *)
(* its control thread                                                      *)
PauseReadRaises ==
    /\ pc = "idle"
    /\ sessions < MaxSessions
    /\ pc' = "stopped"
    /\ ev' = Event("error", "", Absent)
    /\ UNCHANGED <<bot_paused, reply, call, cfg, everLive, pairs, disk, closedDisk, mem,
                   queue, todo, price, atr, balance, age, placed, sessions>>

(* main, lines 65-73: the session is saved, the process is stopped during  *)
(* the sleep of line 68 (KeyboardInterrupt, line 70, or a kill) and is      *)
(* started again before the sleeping interval has elapsed: no order leaves  *)
(* the window of get_closed_orders, and the new process is not paused       *)
StoppedWhileSleeping ==
    /\ pc = "save"
    /\ disk' = mem
    /\ mem' = Empty
    /\ pc' = "idle"
    /\ price' = Absent
    /\ atr' = Absent
    /\ balance' = NoBalance
    /\ everLive' = everLive \cup DOMAIN mem
    /\ ev' = NoEvent
    /\ bot_paused' = FALSE
    /\ UNCHANGED <<reply, call, cfg, pairs, closedDisk, queue, todo, placed, sessions, age>>

(* the process, and its daemon control thread, is alive *)
running == pc # "stopped"

(* a handler that rewrites the positions file *)
opened_for_writing(file) == Empty

(* open("data/trailing_state.json", "r"): the file is left as it is *)
opened_for_reading(file) == file

(* read_positions: json.load of the file *)
read_positions(file) == file

HelpCommand ==
    /\ running
    /\ reply' = [cmd |-> "help"]
    /\ UNCHANGED <<bot_paused, cfg, disk, closedDisk, mem, pc, pairs, queue, todo, price, atr,
                   balance, age, placed, sessions, everLive, ev, call>>

StatusCommand ==
    /\ running
    /\ reply' = [cmd |-> "status", paused |-> bot_paused]
    /\ UNCHANGED <<bot_paused, cfg, disk, closedDisk, mem, pc, pairs, queue, todo, price, atr,
                   balance, age, placed, sessions, everLive, ev, call>>

PauseCommand ==
    /\ running
    /\ IF bot_paused
       THEN /\ reply' = [cmd |-> "pause", text |-> "already paused"]
            /\ bot_paused' = bot_paused
       ELSE /\ bot_paused' = TRUE
            /\ reply' = [cmd |-> "pause", text |-> "paused"]
    /\ UNCHANGED <<cfg, disk, closedDisk, mem, pc, pairs, queue, todo, price, atr,
                   balance, age, placed, sessions, everLive, ev, call>>

ResumeCommand ==
    /\ running
    /\ IF ~bot_paused
       THEN /\ reply' = [cmd |-> "resume", text |-> "already running"]
            /\ bot_paused' = bot_paused
       ELSE /\ bot_paused' = FALSE
            /\ reply' = [cmd |-> "resume", text |-> "resumed"]
    /\ UNCHANGED <<cfg, disk, closedDisk, mem, pc, pairs, queue, todo, price, atr,
                   balance, age, placed, sessions, everLive, ev, call>>

(* get_balance, get_last_price and get_current_atr answer or raise *)
MarketCommand ==
    /\ running
    /\ \E known \in BOOLEAN, ok \in BOOLEAN :
          reply' = [cmd |-> "market",
                    text |-> IF ~known THEN "unknown pair"
                             ELSE IF ok THEN "market status" ELSE "error"]
    /\ UNCHANGED <<bot_paused, cfg, disk, closedDisk, mem, pc, pairs, queue, todo, price, atr,
                   balance, age, placed, sessions, everLive, ev, call>>

(* the positions of data/trailing_state.json, with those that trail *)
PositionsCommand ==
    /\ running
    /\ \E known \in BOOLEAN :
          reply' = IF ~known
                   THEN [cmd |-> "positions", text |-> "unknown pair"]
                   ELSE [cmd |-> "positions",
                         ids |-> DOMAIN read_positions(disk),
                         active |-> {id \in DOMAIN read_positions(disk) :
                                        trailing_active(read_positions(disk)[id])}]
    /\ disk' = opened_for_reading(disk)
    /\ UNCHANGED <<bot_paused, cfg, closedDisk, mem, pc, pairs, queue, todo, price, atr,
                   balance, age, placed, sessions, everLive, ev, call>>

(* one command of the control surface *)
Command ==
    \/ HelpCommand
    \/ StatusCommand
    \/ PauseCommand
    \/ ResumeCommand
    \/ MarketCommand
    \/ PositionsCommand

(* the main loop on the fills of order O1, the commands at any point *)
NextControl ==
    \/ Fill("O1")
    \/ StartSession
    \/ SkipSession
    \/ PausedIteration
    \/ PauseReadRaises
    \/ FetchMarket
    \/ SkipPair
    \/ ProcessOrder
    \/ BeginUpdate
    \/ UpdatePending
    \/ UpdateActive
    \/ CloseOrderFailed
    \/ CloseDone
    \/ CloseSaveFailed
    \/ EndUpdate
    \/ SaveState
    \/ StoppedWhileSleeping
    \/ Crash
    \/ HelpCommand
    \/ StatusCommand
    \/ PauseCommand
    \/ ResumeCommand
    \/ MarketCommand
    \/ PositionsCommand

SpecControl == Init /\ [][NextControl]_vars

-----------------------------------------------------------------------------
(* Properties of the Position Engine *)

(* ids of the positions saved in closed_positions.json *)
ClosedIds == {e.id : e \in closedDisk}

(* the events of a call of close_position *)
Attempts == {"place_failed", "closed", "save_failed"}

(* one iteration of the loop of update_trailing_state over position id *)
UpdateStepOf(id) ==
    /\ pc = "update" /\ pc' = "update"
    /\ todo # <<>> /\ Head(todo) = id /\ todo' = Tail(todo)

(* the simulated post-sale allocation is below the configured minimum *)
BelowMinAllocation(vol) ==
    LET asset_after == (balance.asset - vol) * price
        fiat_after  == balance.fiat * 10000000 + vol * price
        total       == asset_after + fiat_after
    IN  /\ total > 0
        /\ asset_after * cfg.MIN_ALLOC_D < cfg.MIN_ALLOC_N * total

(* the stop of q is not looser than the stop of p *)
StopNotLooser(p, q) ==
    /\ p.side = "sell" => q.stop_price >= p.stop_price
    /\ p.side = "buy"  => q.stop_price <= p.stop_price

(* the trailing price of q has not moved adversely from that of p *)
TrailingNotAdverse(p, q) ==
    /\ p.side = "sell" => q.trailing_price >= p.trailing_price
    /\ p.side = "buy"  => q.trailing_price <= p.trailing_price

(* pnl in hundredths of a percent, from the stop and the entry *)
PnlOf(side, stop, entry) ==
    IF side = "sell"
    THEN RoundDiv((stop - entry) * 10000, entry)
    ELSE RoundDiv((entry - stop) * 10000, entry)

(* entry +/- the activation distance, for the side of the filled order *)
ExpectedActivation(type, entry, a) ==
    LET n == IF cfg.MODE = "dualk"
             THEN 1000 * cfg.K_ACT * a
             ELSE 1000 * cfg.K_STOP * a + 10 * cfg.MIN_MARGIN * entry
    IN  IF type = "buy"
        THEN RoundAdd(entry, n, 100000)
        ELSE RoundAdd(entry, -n, 100000)

(* C1: over any sequence of sessions, failed placements and failed saves *)
(* included, at most one closing order is accepted by the exchange for   *)
(* any one position                                                       *)
C1_AtMostOneClosingOrder ==
    \A id \in OrderIds : placed[id] <= 1

(* C2: when place_limit_order returns no order id the close is aborted    *)
(* with no mutation: the position keeps the field values it had before    *)
(* the attempt, stays live, nothing is added to the closed store, no      *)
(* order is counted; and a live active position whose stop condition      *)
(* holds is given a close attempt in the session                          *)
C2_FailedPlacementAborts ==
    [][ /\ ev'.kind = "place_failed" =>
            LET id == ev'.id
            IN  /\ id \in DOMAIN mem /\ id \in DOMAIN mem'
                /\ \A f \in DOMAIN mem[id] \ {"stop_price", "stop_atr"} :
                       mem'[id][f] = mem[id][f]
                /\ ~atr_deviates(mem[id].stop_atr, atr) => mem'[id] = mem[id]
                /\ mem'[id].stop_price = ev'.oprice
                /\ trailing_active(mem'[id])
                /\ \A k \in DOMAIN mem \ {id} : k \in DOMAIN mem' /\ mem'[k] = mem[k]
                /\ closedDisk' = closedDisk
                /\ placed' = placed
                /\ disk' = disk
        /\ \A id \in DOMAIN mem :
              ( /\ UpdateStepOf(id)
                /\ trailing_active(mem[id])
                /\ ~atr_deviates(mem[id].stop_atr, atr)
                /\ \/ mem[id].side = "buy" /\ price >= mem[id].stop_price
                   \/ /\ mem[id].side = "sell" /\ price <= mem[id].stop_price
                      /\ ~BelowMinAllocation(mem[id].volume) )
              => ev'.kind \in Attempts /\ ev'.id = id
      ]_vars

(* a placement failed for a position that an earlier session saved *)
C2_Witness ==
    /\ ev.kind = "place_failed"
    /\ ev.id \in DOMAIN mem
    /\ ev.id \in DOMAIN disk
    /\ mem[ev.id] = disk[ev.id]

(* C3: a closing sell order is never placed when the simulated post-sale  *)
(* asset allocation is below the minimum; the blocked position stays live *)
(* with its lifecycle fields unchanged; a buy close is never gated        *)
C3_InventoryGate ==
    [][ \A id \in DOMAIN mem :
          /\ (placed'[id] > placed[id] /\ mem[id].side = "sell")
                => ~BelowMinAllocation(mem[id].volume)
          /\ (ev'.kind = "blocked" /\ ev'.id = id) =>
                /\ mem[id].side = "sell"
                /\ BelowMinAllocation(mem[id].volume)
                /\ id \in DOMAIN mem'
                /\ \A f \in DOMAIN mem[id] \ {"stop_price", "stop_atr"} :
                       mem'[id][f] = mem[id][f]
                /\ placed' = placed
                /\ closedDisk' = closedDisk
          /\ ( /\ UpdateStepOf(id)
               /\ mem[id].side = "buy"
               /\ trailing_active(mem[id])
               /\ ~atr_deviates(mem[id].stop_atr, atr)
               /\ price >= mem[id].stop_price )
             => ev'.kind \in Attempts /\ ev'.id = id
      ]_vars

(* a sell close was blocked by the gate and the position is still live *)
C3_Witness ==
    /\ ev.kind = "blocked"
    /\ ev.id \in DOMAIN mem
    /\ mem[ev.id].side = "sell"
    /\ price <= mem[ev.id].stop_price
    /\ placed[ev.id] = 0

(* C4: whenever the process is between sessions (where it may stop and    *)
(* restart) every position that was saved live is in exactly one of       *)
(* trailing_state.json and closed_positions.json                          *)
C4_ExactlyOnce ==
    pc = "idle" =>
        \A id \in everLive : (id \in DOMAIN disk) # (id \in ClosedIds)

(* C5: the lifecycle only moves PENDING -> ACTIVE -> CLOSED: a set        *)
(* trailing_price is never cleared, a closing order is only placed for an *)
(* active position, and a position removed by a close never reappears in  *)
(* live state                                                             *)
C5_Lifecycle ==
    [][ \A id \in OrderIds :
          /\ ( id \in DOMAIN mem /\ id \in DOMAIN mem'
               /\ trailing_active(mem[id]) ) => trailing_active(mem'[id])
          /\ ( id \in DOMAIN disk /\ id \in DOMAIN disk'
               /\ trailing_active(disk[id]) ) => trailing_active(disk'[id])
          /\ placed'[id] > placed[id] =>
                id \in DOMAIN mem /\ trailing_active(mem[id])
          /\ id \in ClosedIds => id \notin DOMAIN mem'
      ]_vars

(* C6: a close that is neither blocked nor aborted places the limit order *)
(* at stop_price, records pnl from stop_price and entry_price, adds the   *)
(* position to the closed store and removes it from live state; entry     *)
(* 20000 and stop 20550 give pnl 2.75%                                    *)
C6_CloseAtStop ==
    [][ \A id \in DOMAIN mem :
          placed'[id] > placed[id] =>
            /\ ~atr_deviates(mem[id].stop_atr, atr)
                  => ev'.oprice = mem[id].stop_price
            /\ \E e \in closedDisk' \ closedDisk :
                  /\ e.id = id
                  /\ e.pos.stop_price = ev'.oprice
                  /\ e.pos.pnl = PnlOf(mem[id].side, ev'.oprice, mem[id].entry_price)
                  /\ ( mem[id].side = "sell" /\ mem[id].entry_price = 200000
                       /\ ev'.oprice = 205500 ) => e.pos.pnl = 275
            /\ id \notin DOMAIN mem'
      ]_vars

(* C7: for an active position and an ATR equal to the ATR its stop was    *)
(* last computed from, every update leaves the stop constant or tighter:  *)
(* a sell stop never decreases, a buy stop never increases                *)
C7_RatchetMonotone ==
    [][ \A id \in OrderIds :
          /\ ( id \in DOMAIN mem /\ id \in DOMAIN mem'
               /\ trailing_active(mem[id])
               /\ mem[id].stop_atr = RoundAtr(atr) )
             => StopNotLooser(mem[id], mem'[id])
          /\ ( id \in DOMAIN disk /\ id \in DOMAIN disk'
               /\ trailing_active(disk[id])
               /\ disk[id].stop_atr = RoundAtr(atr) )
             => StopNotLooser(disk[id], disk'[id])
      ]_vars

(* a trailing step at an unchanged ATR has tightened a saved stop *)
C7_Witness ==
    \E id \in DOMAIN mem \cap DOMAIN disk :
        /\ ev.kind = "trail" /\ ev.id = id
        /\ trailing_active(disk[id])
        /\ disk[id].stop_atr = RoundAtr(atr)
        /\ mem[id].stop_price # disk[id].stop_price

(* C8: once set, trailing_price never moves adversely, sessions that      *)
(* recalibrate the stop on ATR drift included: it never decreases for a   *)
(* sell position and never increases for a buy position                   *)
C8_TrailingNotAdverse ==
    [][ \A id \in OrderIds :
          /\ ( id \in DOMAIN mem /\ id \in DOMAIN mem'
               /\ trailing_active(mem[id]) )
             => TrailingNotAdverse(mem[id], mem'[id])
          /\ ( id \in DOMAIN disk /\ id \in DOMAIN disk'
               /\ trailing_active(disk[id]) )
             => TrailingNotAdverse(disk[id], disk'[id])
      ]_vars

(* the stop of an active position was recalibrated on ATR drift while the *)
(* price was on the adverse side of its trailing price                    *)
C8_Witness ==
    \E id \in DOMAIN mem \cap DOMAIN disk :
        /\ ev.id = id /\ ev.kind \in {"hold", "blocked"}
        /\ trailing_active(disk[id])
        /\ mem[id].stop_atr # disk[id].stop_atr
        /\ mem[id].trailing_price = disk[id].trailing_price
        /\ price # mem[id].trailing_price

(* C9: in every state of a live position activation_price is strictly     *)
(* beyond entry_price in the position's favor (sell: above, buy: below),  *)
(* after ATR recalibration and after recentering too                      *)
C9_ActivationBeyondEntry ==
    \A st \in {mem, disk} : \A id \in DOMAIN st :
        /\ st[id].side = "sell" => st[id].activation_price > st[id].entry_price
        /\ st[id].side = "buy"  => st[id].activation_price < st[id].entry_price

(* C10: a filled order with no mergeable position creates exactly one new *)
(* pending position, of the opposite side, whose activation_price is the  *)
(* entry plus (sell) or minus (buy) K_ACT*ATR in dualk mode and           *)
(* K_STOP*ATR + MIN_MARGIN*entry in onek mode; a buy at 20000 with ATR    *)
(* 100 and K_ACT 4.5 gives a pending sell with activation_price 20450     *)
C10_CreatePending ==
    [][ /\ ev'.kind = "create" =>
            LET id == ev'.id
                o  == OrderInfo(id)
            IN  /\ id \notin DOMAIN mem
                /\ DOMAIN mem' = DOMAIN mem \cup {id}
                /\ \A k \in DOMAIN mem : mem'[k] = mem[k]
                /\ ~trailing_active(mem'[id])
                /\ mem'[id].side = (IF o.type = "buy" THEN "sell" ELSE "buy")
                /\ mem'[id].entry_price = o.price
                /\ mem'[id].activation_price
                      = ExpectedActivation(o.type, o.price, atr)
                /\ ( o.type = "buy" /\ o.price = 200000 /\ atr = 10000
                     /\ cfg.MODE = "dualk" )
                      => ( mem'[id].side = "sell"
                           /\ mem'[id].activation_price = 204500 )
        /\ ev'.kind \in {"create", "merge"} =>
            LET o    == OrderInfo(ev'.id)
                side == IF o.type = "buy" THEN "sell" ELSE "buy"
                mergeable == \E k \in DOMAIN mem :
                    /\ mem[k].side = side
                    /\ ~trailing_active(mem[k])
                    /\ Abs(get_reference_price(mem[k]) - o.price) * 200
                          < get_reference_price(mem[k])
            IN  (ev'.kind = "create") <=> ~mergeable
      ]_vars

(* the filled buy at 20000 has created the pending sell of the example *)
C10_Witness ==
    /\ ev.kind = "create" /\ ev.id = "O1"
    /\ cfg.MODE = "dualk" /\ atr = 10000
    /\ ~trailing_active(mem["O1"])
    /\ mem["O1"].side = "sell"
    /\ mem["O1"].activation_price = 204500

(* the pending positions of side `side` within the merge tolerance (0.5%  *)
(* of their reference price) of price p                                   *)
Mergeable(side, p) ==
    { k \in DOMAIN mem :
        /\ mem[k].side = side
        /\ mem[k].trailing_price = Absent
        /\ Abs(get_reference_price(mem[k]) - p) * 200
              < get_reference_price(mem[k]) }

(* C11: a filled order is merged into a live pending position of the      *)
(* resulting side within the merge tolerance, and the number of live      *)
(* positions is unchanged; a position is created only when there is none; *)
(* an order is never merged into an activated position                    *)
C11_MergeIntoPending ==
    [][ ev'.kind \in {"create", "merge"} =>
          LET o    == OrderInfo(ev'.id)
              side == IF o.type = "buy" THEN "sell" ELSE "buy"
              C    == Mergeable(side, o.price)
          IN  /\ C # {} =>
                    /\ ev'.kind = "merge"
                    /\ DOMAIN mem' = DOMAIN mem
                    /\ \E k \in C :
                          /\ mem'[k].opening_order
                                = Append(mem[k].opening_order, ev'.id)
                          /\ ~trailing_active(mem'[k])
                          /\ \A j \in DOMAIN mem \ {k} : mem'[j] = mem[j]
              /\ C = {} =>
                    /\ ev'.kind = "create"
                    /\ ev'.id \notin DOMAIN mem
                    /\ DOMAIN mem' = DOMAIN mem \cup {ev'.id}
              /\ \A k \in DOMAIN mem :
                    trailing_active(mem[k]) => mem'[k] = mem[k]
      ]_vars

(* the second buy was merged into the pending sell position of the first *)
C11_Witness ==
    /\ ev.kind = "merge" /\ ev.id = "O3"
    /\ DOMAIN mem = {"O1"}
    /\ mem["O1"].opening_order = <<"O1", "O3">>
    /\ ~trailing_active(mem["O1"])

(* the minimum-margin clamp does not shorten the stop distance of a       *)
(* trailing price tp for position p                                       *)
NoClamp(p, tp) ==
    \/ cfg.MODE = "onek"
    \/ cfg.MIN_MARGIN = 0
    \/ LET ref   == get_reference_price(p)
           space == IF p.side = "sell"
                    THEN (tp - ref) * 100000 - 10 * ref * cfg.MIN_MARGIN
                    ELSE (ref - tp) * 100000 - 10 * ref * cfg.MIN_MARGIN
       IN  1000 * cfg.K_STOP * atr <= space

(* trailing price -/+ K_STOP * ATR, rounded to one decimal *)
ExpectedStop(side, tp, a) ==
    IF side = "sell"
    THEN RoundAdd(tp, -(cfg.K_STOP * a), 100)
    ELSE RoundAdd(tp, cfg.K_STOP * a, 100)

(* C13: whenever a session sets or advances trailing_price (activation,   *)
(* or a price further in the position's favor than the stored             *)
(* trailing_price) trailing_price becomes the current price and, when the *)
(* minimum-margin clamp does not apply, stop_price is trailing_price -    *)
(* K_STOP*ATR for a sell and + K_STOP*ATR for a buy; activation at 20500  *)
(* with K_STOP 2.5 and ATR 100 gives 20250, a rise to 20800 gives 20550   *)
C13_TrailingFormula ==
    [][ \A id \in DOMAIN mem \cap DOMAIN mem' :
          LET p == mem[id]
              q == mem'[id]
          IN  /\ ( \/ ~trailing_active(p) /\ trailing_active(q)
                   \/ trailing_active(p) /\ q.trailing_price # p.trailing_price )
                 => /\ UpdateStepOf(id)
                    /\ q.trailing_price = price
                    /\ NoClamp(q, price) =>
                          /\ q.stop_price = ExpectedStop(q.side, price, atr)
                          /\ ( q.side = "sell" /\ atr = 10000
                               /\ price = 205000 ) => q.stop_price = 202500
                          /\ ( q.side = "sell" /\ atr = 10000
                               /\ price = 208000 ) => q.stop_price = 205500
              /\ ( /\ UpdateStepOf(id)
                   /\ trailing_active(p)
                   /\ \/ p.side = "sell" /\ price > p.trailing_price
                      \/ p.side = "buy"  /\ price < p.trailing_price )
                 => q.trailing_price = price
              /\ ( /\ UpdateStepOf(id)
                   /\ ~trailing_active(p)
                   /\ trailing_active(q) )
                 => \/ q.side = "sell" /\ price >= q.activation_price
                    \/ q.side = "buy"  /\ price <= q.activation_price
      ]_vars

(* the position activated at 20500 with stop 20250 has trailed to 20800 *)
(* with stop 20550                                                       *)
C13_Witness ==
    \E id \in DOMAIN mem \cap DOMAIN disk :
        /\ ev.kind = "trail" /\ ev.id = id
        /\ disk[id].trailing_price = 205000 /\ disk[id].stop_price = 202500
        /\ mem[id].trailing_price = 208000 /\ mem[id].stop_price = 205500

(* position id is created, removed or modified by the step *)
Changed(id) ==
    \/ (id \in DOMAIN mem) # (id \in DOMAIN mem')
    \/ id \in DOMAIN mem /\ id \in DOMAIN mem' /\ mem'[id] # mem[id]

(* C14: when the price or ATR fetch fails for a pair the pair is skipped  *)
(* for the session: nothing of it is created, merged, recalibrated,       *)
(* activated, trailed or closed, no order is placed for it, and the loop  *)
(* goes on with the other pairs; a position only changes while its own    *)
(* pair is processed with the price and ATR fetched for that pair; when   *)
(* the balance fetch fails the session is skipped with no state change    *)
(* and no order                                                           *)
C14_FetchFailureSkips ==
    [][ /\ ( pc = "pair" /\ pc' # "idle" /\ pairs # <<>>
             /\ pairs' = Tail(pairs) )
           => /\ mem' = mem
              /\ disk' = disk
              /\ closedDisk' = closedDisk
              /\ placed' = placed
              /\ pc' = IF Tail(pairs) # <<>> THEN "pair" ELSE "save"
        /\ \A id \in OrderIds :
              ( pc # "idle" /\ pc' # "idle"
                /\ (Changed(id) \/ placed'[id] # placed[id]) )
              => /\ pc \in {"orders", "update"}
                 /\ pairs # <<>>
                 /\ Head(pairs) = OrderInfo(id).pair
                 /\ price \in PricesOf(OrderInfo(id).pair)
                 /\ atr \in AtrsOf(OrderInfo(id).pair)
        /\ ( pc = "idle" /\ pc' = "idle" /\ sessions' # sessions )
           => /\ mem' = mem
              /\ disk' = disk
              /\ closedDisk' = closedDisk
              /\ placed' = placed
      ]_vars

(* the fetch for ETHEUR failed in a session with live XBTEUR positions:   *)
(* they are untouched and XBTEUR is the next pair of the loop             *)
C14_Witness ==
    /\ pc = "pair"
    /\ pairs = <<"XBTEUR">>
    /\ price = Absent
    /\ DOMAIN mem # {}
    /\ mem = disk

-----------------------------------------------------------------------------
(* Offline tools and pure functions: src/trading/parameters_manager.py,    *)
(* src/trading/backtest.py, src/trading/optimize_params.py,                *)
(* src/trading/market_analyzer.py, src/utils/market_analyzer.py and the    *)
(* merge of src/main.py, each applied to inputs drawn from bounded sets.   *)
(* K values are tenths (25 = 2.5), k-values of events hundredths.          *)

(* filled orders large enough for round(cost, 2) to show *)
BigOrders ==
    { [pair |-> PAIR, type |-> t, price |-> p, vol_exec |-> v,
       cost |-> RoundDiv(v * p, 10000000)] :
        t \in {"buy", "sell"}, p \in {200000, 200900}, v \in {3000, 5000} }

(* PAIRS[pair]['atr_20pct'] .. ['atr_95pct'], raw ATR in hundredths *)
AtrPct == [atr_20pct |-> 200, atr_50pct |-> 500, atr_80pct |-> 800,
           atr_95pct |-> 950]

(* ATR values below, at and above every breakpoint *)
AtrVals == {100, 200, 350, 500, 650, 800, 900, 950, 1200}

(* parameters_manager.py: the levels of the K_STOP tables *)
vols == <<"LV", "MV", "HV", "EV">>

(* TRADING_PARAMS[pair][side]["K_STOP"]: level -> K_STOP or None *)
KStopTables == [{"LV", "MV", "HV", "EV"} -> {Absent, 25}]

(* parameters_manager.get_volatility_level *)
get_volatility_level(atr_val) ==
    IF atr_val < AtrPct.atr_50pct THEN "LV"
    ELSE IF atr_val < AtrPct.atr_80pct THEN "MV"
    ELSE IF atr_val < AtrPct.atr_95pct THEN "HV"
    ELSE "EV"

(* backtest._vol_level_from_atr *)
vol_level_from_atr(atr_val) ==
    IF atr_val < AtrPct.atr_20pct THEN "LL"
    ELSE IF atr_val < AtrPct.atr_50pct THEN "LV"
    ELSE IF atr_val < AtrPct.atr_80pct THEN "MV"
    ELSE IF atr_val < AtrPct.atr_95pct THEN "HV"
    ELSE "HH"

(* vols.index(vol), from 1 *)
vols_index(vol) == CHOOSE i \in 1..Len(vols) : vols[i] = vol

(* the neighbours (idx - offset, idx + offset) for offset = 1 .. len - 1, *)
(* in the order of the two loops, those inside the list only              *)
RECURSIVE neighbors(_, _)
neighbors(idx, offset) ==
    IF offset > Len(vols) - 1 THEN <<>>
    ELSE SelectSeq(<<idx - offset, idx + offset>>,
                   LAMBDA n : 1 <= n /\ n <= Len(vols))
         \o neighbors(idx, offset + 1)

(* TRADING_PARAMS[pair][side]["K_STOP"].get(vol): None for a missing key *)
dict_get(table, key) == IF key \in DOMAIN table THEN table[key] ELSE Absent

(* the first K_STOP that is not None among the levels seq of a table *)
RECURSIVE first_k_stop(_, _)
first_k_stop(table, seq) ==
    IF seq = <<>> THEN Absent
    ELSE IF dict_get(table, vols[Head(seq)]) # Absent
         THEN dict_get(table, vols[Head(seq)])
    ELSE first_k_stop(table, Tail(seq))

(* parameters_manager.get_k_stop: same side and level, opposite side and  *)
(* same level, then the neighbouring levels of the same side              *)
get_k_stop(params, side, atr_val) ==
    LET vol     == get_volatility_level(atr_val)
        op_side == IF side = "sell" THEN "buy" ELSE "sell"
    IN  IF dict_get(params[side], vol) # Absent
        THEN dict_get(params[side], vol)
        ELSE IF dict_get(params[op_side], vol) # Absent
        THEN dict_get(params[op_side], vol)
        ELSE first_k_stop(params[side], neighbors(vols_index(vol), 1))

(* k-values of the events: hundredths; quantiles and K_STOP values of the *)
(* calibration: 1/10000, so that a multiple of 0.1 is a multiple of 1000  *)
KValues == {120, 155, 230}

(* events of analyze_structural_noise: one ATR per volatility level *)
Events == [atr_at_max : {300, 600, 900, 1000}, k_value : KValues]

MaxEvents == 3

(* the lists of at most n elements of S *)
RECURSIVE SeqsUpTo(_, _)
SeqsUpTo(S, n) ==
    IF n = 0 THEN {<<>>}
    ELSE LET shorter == SeqsUpTo(S, n - 1)
         IN  shorter \cup { Append(s, x) : s \in shorter, x \in S }

(* Series.quantile(pct) and np.quantile(values, pct), linear interpolation *)
(* between the order statistics around position (n - 1) * pct; pct in     *)
(* hundredths, the result in 1/10000                                      *)
quantile(values, pct) ==
    LET sorted == SortSeq(values, LAMBDA a, b : a < b)
        pos    == (Len(values) - 1) * pct
        lo     == pos \div 100 + 1
        frac   == pos % 100
        hi     == IF frac = 0 THEN lo ELSE lo + 1
    IN  sorted[lo] * 100 + (sorted[hi] - sorted[lo]) * frac

(* round(value * 10) / 10 *)
round_tenth(q) == RoundDiv(q, 1000) * 1000

(* math.ceil(value * 10) / 10 *)
ceil_tenth(q) == ((q + 999) \div 1000) * 1000

(* get_pct_k_value of calculate_k_stops *)
get_pct_k_value(events, pct) ==
    IF events = <<>> THEN Absent
    ELSE ceil_tenth(quantile([i \in 1..Len(events) |-> events[i].k_value], pct))

(* parameters_manager.calculate_k_stops *)
calculate_k_stops(events_data) ==
    IF events_data = <<>>
    THEN [LV |-> Absent, MV |-> Absent, HV |-> Absent, EV |-> Absent]
    ELSE LET lv == SelectSeq(events_data,
                       LAMBDA e : e.atr_at_max < AtrPct.atr_50pct)
             mv == SelectSeq(events_data,
                       LAMBDA e : /\ AtrPct.atr_50pct <= e.atr_at_max
                                  /\ e.atr_at_max < AtrPct.atr_80pct)
             hv == SelectSeq(events_data,
                       LAMBDA e : /\ AtrPct.atr_80pct <= e.atr_at_max
                                  /\ e.atr_at_max < AtrPct.atr_95pct)
             ev4 == SelectSeq(events_data,
                       LAMBDA e : e.atr_at_max >= AtrPct.atr_95pct)
         IN  [LV |-> get_pct_k_value(lv, 90), MV |-> get_pct_k_value(mv, 90),
              HV |-> get_pct_k_value(hv, 75), EV |-> get_pct_k_value(ev4, 75)]

(* optimize_params._quantile_ceiled *)
quantile_ceiled(values, pct) ==
    IF Len(values) = 0 THEN Absent
    ELSE ceil_tenth(quantile(values, pct))

(* detect_pivots.  Prices in tenths; a bar is its low and its high. *)
Bars == { [low |-> 990,  high |-> 1012],
          [low |-> 1000, high |-> 1000],
          [low |-> 1000, high |-> 1050],
          [low |-> 1010, high |-> 1012],
          [low |-> 1040, high |-> 1100] }

MaxBars == 4

(* the order of argrelextrema in the model *)
ORDER == 1

(* MINIMUM_CHANGE_PCT, in thousandths (0.015) *)
MINIMUM_CHANGE_PCT == 15

(* argrelextrema(values, less_equal / greater_equal, order), mode clip:   *)
(* i is an extremum if the comparison holds against every bar within      *)
(* order positions that is inside the series                              *)
argrelextrema(values, comparator, order) ==
    { i \in 1..Len(values) :
        \A j \in 1..Len(values) :
            (j # i /\ j >= i - order /\ j <= i + order)
                => IF comparator = "less_equal"
                   THEN values[i] <= values[j]
                   ELSE values[i] >= values[j] }

(* the pivots of the minima and of the maxima, sorted by index; the sort  *)
(* is stable, so the minimum of a bar comes before its maximum            *)
RECURSIVE sorted_pivots(_, _, _, _)
sorted_pivots(df, ilocs_min, ilocs_max, i) ==
    IF i > Len(df) THEN <<>>
    ELSE (IF i \in ilocs_min
          THEN <<[i |-> i, type |-> "min", price |-> df[i].low]>> ELSE <<>>)
         \o (IF i \in ilocs_max
             THEN <<[i |-> i, type |-> "max", price |-> df[i].high]>> ELSE <<>>)
         \o sorted_pivots(df, ilocs_min, ilocs_max, i + 1)

(* del pivots[i] *)
del(pivots, i) == SubSeq(pivots, 1, i - 1) \o SubSeq(pivots, i + 1, Len(pivots))

(* the while loop that removes the false pivots, i from 1; two adjacent   *)
(* pivots of different types and the same price leave the list and i      *)
(* unchanged: the loop does not end                                       *)
RECURSIVE remove_false_pivots(_, _)
remove_false_pivots(pivots, i) ==
    IF ~(i < Len(pivots)) THEN [returns |-> TRUE, pivots |-> pivots]
    ELSE LET curr == pivots[i]
             next == pivots[i + 1]
         IN  IF curr.type = next.type
             THEN IF \/ curr.type = "max" /\ curr.price >= next.price
                     \/ curr.type = "min" /\ curr.price <= next.price
                  THEN remove_false_pivots(del(pivots, i + 1), i)
                  ELSE remove_false_pivots(del(pivots, i), i)
             ELSE IF curr.price # next.price
             THEN IF Abs(curr.price - next.price) * 1000
                        < MINIMUM_CHANGE_PCT * curr.price
                  THEN remove_false_pivots(del(pivots, i + 1), i)
                  ELSE remove_false_pivots(pivots, i + 1)
             ELSE [returns |-> FALSE, pivots |-> pivots]

(* the pivots before the removal of the false ones *)
candidate_pivots(df, order) ==
    sorted_pivots(df,
        argrelextrema([i \in 1..Len(df) |-> df[i].low], "less_equal", order),
        argrelextrema([i \in 1..Len(df) |-> df[i].high], "greater_equal", order),
        1)

(* detect_pivots without the removal of the false pivots *)
detect_pivots_unfiltered(df, order) ==
    [returns |-> TRUE, pivots |-> candidate_pivots(df, order)]

detect_pivots(df, order) ==
    remove_false_pivots(candidate_pivots(df, order), 1)

(* The Simulator (src/trading/backtest.py) and the one-position engine    *)
(* (src/trading/positions_manager.py), with the parameters of the live    *)
(* engine: TRADING_PARAMS[pair][side] has K_ACT in dualk mode only, the   *)
(* same K_STOP at every level, and MIN_MARGIN                             *)
TRADING_PARAMS(side) ==
    [K_ACT      |-> IF cfg.MODE = "dualk" THEN Params(side).K_ACT ELSE Absent,
     MIN_MARGIN |-> Params(side).MIN_MARGIN,
     K_STOP     |-> [l \in {"LV", "MV", "HV", "EV"} |-> Params(side).K_STOP]]

(* get_k_stop(pair, side, atr_val) on the tables of TRADING_PARAMS *)
k_stop_of(side, atr_val) ==
    get_k_stop([sell |-> TRADING_PARAMS("sell").K_STOP,
                buy  |-> TRADING_PARAMS("buy").K_STOP], side, atr_val)

(* the activation distance shared by backtest._activation_price and      *)
(* positions_manager.calculate_activation_price, over 100000; in the      *)
(* Simulator a missing K_STOP counts as 0.0                               *)
tool_activation_distance(side, entry_price, atr_val) ==
    IF TRADING_PARAMS(side).K_ACT # Absent
    THEN 1000 * TRADING_PARAMS(side).K_ACT * atr_val
    ELSE 1000 * k_stop_of(side, atr_val) * atr_val
         + 10 * TRADING_PARAMS(side).MIN_MARGIN * entry_price

(* backtest._activation_price *)
backtest_activation_price(side, entry_price, atr_val) ==
    LET activation_distance == tool_activation_distance(side, entry_price, atr_val)
    IN  IF side = "sell"
        THEN Real(entry_price, activation_distance, 100000)
        ELSE Real(entry_price, -activation_distance, 100000)

(* backtest._stop_price *)
backtest_stop_price(side, trailing_price, atr_val) ==
    LET stop_distance == 1000 * k_stop_of(side, atr_val) * atr_val
    IN  IF side = "sell"
        THEN Real(trailing_price, -stop_distance, 100000)
        ELSE Real(trailing_price, stop_distance, 100000)

(* positions_manager.calculate_activation_price *)
pm_calculate_activation_price(side, entry_price, atr_val) ==
    LET activation_distance == tool_activation_distance(side, entry_price, atr_val)
    IN  IF side = "sell"
        THEN Real(entry_price, -activation_distance, 100000)
        ELSE Real(entry_price, activation_distance, 100000)

(* positions_manager.calculate_stop_price *)
pm_calculate_stop_price(side, trailing_price, atr_val) ==
    LET stop_distance == 1000 * k_stop_of(side, atr_val) * atr_val
    IN  IF side = "sell"
        THEN Real(trailing_price, -stop_distance, 100000)
        ELSE Real(trailing_price, stop_distance, 100000)

(* a pending position of the live engine with the given side and entry *)
engine_position(side, entry_price) ==
    [side |-> side, entry_price |-> entry_price, reference_price |-> Absent,
     activation_price |-> Absent, activation_atr |-> Absent,
     trailing_price |-> Absent, stop_price |-> Absent, stop_atr |-> Absent]

(* float('nan') in the atr column *)
NaN == -1

(* ATR_DESV_LIMIT, in tenths (0.2) *)
ATR_DESV_LIMIT == 2

(* atr > 0 and not np.isnan(atr) *)
valid_atr(a) == a # NaN /\ a > 0

(* stored < atr * (1 - ATR_DESV_LIMIT) or stored > atr * (1 + ATR_DESV_LIMIT) *)
outside_atr_limits(stored_atr, a) ==
    \/ 10 * stored_atr < a * (10 - ATR_DESV_LIMIT)
    \/ 10 * stored_atr > a * (10 + ATR_DESV_LIMIT)

(* rows of the OHLC+ATR series; prices in tenths, every price a multiple  *)
(* of 50.0 and every ATR of 20.00, so that each distance of the Simulator *)
(* is a whole number of tenths                                            *)
Rows == { [atr |-> 10000, high |-> 201000, low |-> 199000, close |-> 200000],
          [atr |-> 10000, high |-> 206000, low |-> 203000, close |-> 205000],
          [atr |-> 10000, high |-> 200000, low |-> 197000, close |-> 198000],
          [atr |-> 16000, high |-> 208000, low |-> 206000, close |-> 207000],
          [atr |-> 0,     high |-> 201000, low |-> 199000, close |-> 200500],
          [atr |-> NaN,   high |-> 201000, low |-> 199000, close |-> 201000] }

MaxRows == 4

(* the first row of df with a valid ATR, 0 if none *)
first_valid_row(df) ==
    IF \E i \in 1..Len(df) : valid_atr(df[i].atr)
    THEN CHOOSE i \in 1..Len(df) :
             /\ valid_atr(df[i].atr)
             /\ \A j \in 1..(i - 1) : ~valid_atr(df[j].atr)
    ELSE 0

(* fee rates, in 1/10000: FEE_PCT=0 and FEE_PCT=0.26 *)
FeeRates == {0, 26}

(* price * fee_rate, over 1e-5 of the quote currency *)
fee_abs(op_price, fee_rate) == op_price * fee_rate

(* _pnl_abs: against the price of the previous operation, over 1e-5 *)
pnl_abs(prev_side, prev_price, curr_price) ==
    IF prev_side = "buy" THEN (curr_price - prev_price) * 10000
    ELSE (prev_price - curr_price) * 10000

(* pnl is <<>> for None and <<pnl_abs>> otherwise; pnl_pct is pnl_abs over *)
(* the price of the previous operation, a function of the fields kept     *)
Operation(idx, time, side, op_price, vol, k_stop, fee, pnl, cum_pnl) ==
    [idx |-> idx, time |-> time, side |-> side, price |-> op_price,
     vol |-> vol, k_stop |-> k_stop, fee_abs |-> fee, pnl_abs |-> pnl,
     cum_pnl |-> cum_pnl]

(* simulate_operations up to its main loop (lines 114-163) *)
(* a start that goes on from the cum_pnl the previous call ended with *)
simulate_start_resumed(df, fee_rate, max_ops) ==
    LET first == first_valid_row(df)
        left  == IF call.op = "simulate_operations" THEN call.cum_pnl ELSE 0
        base  == [op |-> "simulate_operations", df |-> df,
                  fee_rate |-> fee_rate, max_ops |-> max_ops,
                  run |-> 1, first_ops |-> <<>>, cum_pnl |-> left,
                  row |-> 1, ops |-> <<>>, returned |-> TRUE,
                  side |-> "sell", entry_price |-> Absent, active |-> FALSE,
                  activation_price |-> Absent, activation_atr |-> Absent,
                  trailing_price |-> Absent, stop_price |-> Absent,
                  stop_atr |-> Absent, exit_stop |-> Absent]
    IN  IF first = 0 THEN base
        ELSE [base EXCEPT
                 !.ops = <<Operation(1, first, "buy", df[first].close,
                                     vol_level_from_atr(df[first].atr),
                                     k_stop_of("buy", df[first].atr),
                                     fee_abs(df[first].close, fee_rate), <<>>,
                                     left - fee_abs(df[first].close, fee_rate))>>,
                 !.cum_pnl = left - fee_abs(df[first].close, fee_rate),
                 !.entry_price = df[first].close,
                 !.returned = FALSE]

simulate_start(df, fee_rate, max_ops) ==
    LET first == first_valid_row(df)
        base  == [op |-> "simulate_operations", df |-> df,
                  fee_rate |-> fee_rate, max_ops |-> max_ops,
                  run |-> 1, first_ops |-> <<>>, cum_pnl |-> 0,
                  row |-> 1, ops |-> <<>>, returned |-> TRUE,
                  side |-> "sell", entry_price |-> Absent, active |-> FALSE,
                  activation_price |-> Absent, activation_atr |-> Absent,
                  trailing_price |-> Absent, stop_price |-> Absent,
                  stop_atr |-> Absent, exit_stop |-> Absent]
    IN  IF first = 0 THEN base
        ELSE [base EXCEPT
                 !.ops = <<Operation(1, first, "buy", df[first].close,
                                     vol_level_from_atr(df[first].atr),
                                     k_stop_of("buy", df[first].atr),
                                     fee_abs(df[first].close, fee_rate), <<>>,
                                     0 - fee_abs(df[first].close, fee_rate))>>,
                 !.cum_pnl = 0 - fee_abs(df[first].close, fee_rate),
                 !.entry_price = df[first].close,
                 !.returned = FALSE]

(* an exit that executes at the low (sell) or the high (buy) of the bar *)
exec_price_at_bar(st, high, low) == IF st.side = "sell" THEN low ELSE high

(* exec_price = stop_price *)
exec_price(st, high, low) == st.stop_price

(* lines 215-247 and 254-286: the exit of the position at the stop *)
sim_exit(st, i, high, low, a) ==
    LET executed == exec_price(st, high, low)
        prev  == st.ops[Len(st.ops)]
        fee   == fee_abs(executed, st.fee_rate)
        pnl   == pnl_abs(prev.side, prev.price, executed) - fee
        ops   == Append(st.ops,
                        Operation(Len(st.ops) + 1, i, st.side, executed,
                                  vol_level_from_atr(a), k_stop_of(st.side, a),
                                  fee, <<pnl>>, st.cum_pnl + pnl))
    IN  IF st.max_ops # <<>> /\ Len(ops) >= st.max_ops[1]
        THEN [st EXCEPT !.ops = ops, !.exit_stop = st.stop_price,
                        !.cum_pnl = st.cum_pnl + pnl,
                        !.returned = TRUE]
        ELSE [st EXCEPT !.ops = ops, !.exit_stop = st.stop_price,
                        !.cum_pnl = st.cum_pnl + pnl,
                        !.side = IF st.side = "sell" THEN "buy" ELSE "sell",
                        !.entry_price = executed,
                        !.active = FALSE,
                        !.activation_price = Absent, !.activation_atr = Absent,
                        !.trailing_price = Absent, !.stop_price = Absent,
                        !.stop_atr = Absent]

(* the stop set from a trailing price and the ATR of the bar *)
with_stop(st, trailing_price, a) ==
    [st EXCEPT !.trailing_price = trailing_price,
               !.stop_price = Round1(backtest_stop_price(st.side, trailing_price, a)),
               !.stop_atr = a]

(* the activation price set from the entry and the ATR of the bar *)
with_activation(st, a) ==
    [st EXCEPT !.activation_price =
                   Round1(backtest_activation_price(st.side, st.entry_price, a)),
               !.activation_atr = a]

(* lines 178-186: the activation price, set if missing and recalibrated *)
(* while the position is not active                                     *)
sim_activation(st, a) ==
    LET s1 == IF st.activation_price = Absent THEN with_activation(st, a) ELSE st
    IN  IF ~s1.active /\ outside_atr_limits(s1.activation_atr, a)
        THEN with_activation(s1, a) ELSE s1

(* lines 189-198: the activation check against the high or the low *)
sim_activates(st, high, low) ==
    \/ st.side = "sell" /\ high >= st.activation_price
    \/ st.side = "buy"  /\ low <= st.activation_price

sim_activate(st, high, low, a) ==
    IF st.active THEN st
    ELSE with_stop([st EXCEPT !.active = TRUE],
                   IF st.side = "sell" THEN high ELSE low, a)

(* lines 203-206: the stop recalibrated on the stored trailing price *)
sim_recalibrate_stop(st, a) ==
    IF outside_atr_limits(st.stop_atr, a)
    THEN with_stop(st, st.trailing_price, a) ELSE st

(* lines 210-213 and 249-252: the trailing price follows the bar *)
sim_trail(st, high, low, a) ==
    IF \/ st.side = "sell" /\ high > st.trailing_price
       \/ st.side = "buy"  /\ low < st.trailing_price
    THEN with_stop(st, IF st.side = "sell" THEN high ELSE low, a)
    ELSE st

(* a stop check against the extreme of the bar that the activation check *)
(* uses: the high for a sell, the low for a buy                          *)
sim_stop_check_activation_extreme(st, i, high, low, a) ==
    IF \/ st.side = "sell" /\ high <= st.stop_price
       \/ st.side = "buy"  /\ low >= st.stop_price
    THEN sim_exit(st, i, high, low, a)
    ELSE st

(* lines 214 and 253: the stop is hit inside the bar *)
sim_stop_check(st, i, high, low, a) ==
    IF \/ st.side = "sell" /\ low <= st.stop_price
       \/ st.side = "buy"  /\ high >= st.stop_price
    THEN sim_exit(st, i, high, low, a)
    ELSE st

(* a row with a valid ATR, the activation price being set *)
sim_row(st, i, high, low, a) ==
    IF ~st.active /\ ~sim_activates(st, high, low) THEN st
    ELSE sim_stop_check(
             sim_trail(sim_recalibrate_stop(sim_activate(st, high, low, a), a),
                       high, low, a),
             i, high, low, a)

(* one iteration of the main loop of simulate_operations on row i *)
sim_bar(st, i) ==
    IF ~valid_atr(st.df[i].atr) THEN st
    ELSE sim_row(sim_activation(st, st.df[i].atr), i,
                 st.df[i].high, st.df[i].low, st.df[i].atr)

-----------------------------------------------------------------------------
(* One action per tool, run once from the shell: the call, its inputs and *)
(* its result                                                            *)

(* the variables of the live engine, which no tool touches *)
engine_vars == <<cfg, disk, closedDisk, mem, pc, pairs, queue, todo, price, atr,
                 balance, age, placed, sessions, everLive, ev, bot_paused, reply>>

(* main.process_closed_order on a pair holding one pending position *)
Merge ==
    /\ call = NoCall
    /\ UNCHANGED engine_vars
    /\ \E e \in BigOrders, o \in BigOrders, a \in Atrs :
        /\ e.type = o.type
        /\ LET pair_state == Put(Empty, "O1", new_position("O1", e, a))
           IN  call' = [op |-> "merge",
                        existing |-> pair_state["O1"],
                        order |-> o,
                        after |-> process_closed_order("O2", o, pair_state, a)]

GetKStop ==
    /\ call = NoCall
    /\ UNCHANGED engine_vars
    /\ \E sell \in KStopTables, buy \in KStopTables,
       side \in {"buy", "sell"}, atr_val \in AtrVals :
        LET params == [sell |-> sell, buy |-> buy]
        IN  call' = [op |-> "get_k_stop", params |-> params, side |-> side,
                     atr_val |-> atr_val,
                     k_stop |-> get_k_stop(params, side, atr_val)]

(* optimize_params.py: VOLATILITY_LEVELS, the levels of the tables that    *)
(* _apply_candidate_mode stores                                            *)
LEVELS == <<"LL", "LV", "MV", "HV", "HH">>

(* the K_STOP of a level in a candidate's table, in tenths: one value per  *)
(* level, so that the level a value was stored under can be told          *)
LevelKStop(l) ==
    CASE l = "LL" -> 10 [] l = "LV" -> 15 [] l = "MV" -> 20
      [] l = "HV" -> 25 [] l = "HH" -> 30

(* the tables {lvl: _quantile_ceiled(...) for lvl in LEVELS}; a level with *)
(* no events has None                                                      *)
CandidateTables ==
    { [l \in {LEVELS[i] : i \in DOMAIN LEVELS} |->
          IF l \in have THEN LevelKStop(l) ELSE Absent] :
      have \in SUBSET {LEVELS[i] : i \in DOMAIN LEVELS} }

(* get_k_stop on the tables of a candidate of the optimizer, as            *)
(* backtest._stop_price calls it                                           *)
GetKStopCandidate ==
    /\ call = NoCall
    /\ UNCHANGED engine_vars
    /\ \E sell \in CandidateTables, buy \in CandidateTables,
       side \in {"buy", "sell"}, atr_val \in AtrVals :
        LET params == [sell |-> sell, buy |-> buy]
        IN  call' = [op |-> "get_k_stop_candidate", params |-> params,
                     side |-> side, atr_val |-> atr_val,
                     level |-> vol_level_from_atr(atr_val),
                     k_stop |-> get_k_stop(params, side, atr_val)]

GetVolatilityLevel ==
    /\ call = NoCall
    /\ UNCHANGED engine_vars
    /\ \E atr_val \in AtrVals :
        call' = [op |-> "get_volatility_level", atr_val |-> atr_val,
                 level |-> get_volatility_level(atr_val)]

VolLevelFromAtr ==
    /\ call = NoCall
    /\ UNCHANGED engine_vars
    /\ \E atr_val \in AtrVals :
        call' = [op |-> "_vol_level_from_atr", atr_val |-> atr_val,
                 level |-> vol_level_from_atr(atr_val)]

CalculateKStops ==
    /\ call = NoCall
    /\ UNCHANGED engine_vars
    /\ \E events_data \in SeqsUpTo(Events, MaxEvents) :
        call' = [op |-> "calculate_k_stops", events_data |-> events_data,
                 k_stops |-> calculate_k_stops(events_data)]

QuantileCeiled ==
    /\ call = NoCall
    /\ UNCHANGED engine_vars
    /\ \E values \in SeqsUpTo(KValues, MaxEvents), pct \in {50, 75, 90} :
        call' = [op |-> "_quantile_ceiled", values |-> values, pct |-> pct,
                 k_stop |-> quantile_ceiled(values, pct)]

DetectPivots ==
    /\ call = NoCall
    /\ UNCHANGED engine_vars
    /\ \E df \in SeqsUpTo(Bars, MaxBars) :
        call' = [op |-> "detect_pivots", df |-> df,
                 candidates |-> candidate_pivots(df, ORDER),
                 result |-> detect_pivots(df, ORDER)]

(* the same inputs to the formulas of the Simulator, of the one-position  *)
(* engine and of the live engine of main.py; prices rounded to 0.1        *)
Formulas ==
    /\ call = NoCall
    /\ UNCHANGED engine_vars
    /\ \E side \in {"buy", "sell"}, trailing_price \in {204000, 205000, 208000},
       atr_val \in Atrs :
        LET entry_price == 200000
            trailing    == IF side = "sell" THEN trailing_price
                           ELSE 2 * entry_price - trailing_price
            pos         == engine_position(side, entry_price)
        IN  call' =
              [op |-> "formulas", side |-> side, entry_price |-> entry_price,
               trailing_price |-> trailing, atr_val |-> atr_val,
               simulator |->
                 [activation_price |->
                      Round1(backtest_activation_price(side, entry_price, atr_val)),
                  stop_price |->
                      Round1(backtest_stop_price(side, trailing, atr_val))],
               positions_manager |->
                 [activation_price |->
                      Round1(pm_calculate_activation_price(side, entry_price, atr_val)),
                  stop_price |->
                      Round1(pm_calculate_stop_price(side, trailing, atr_val))],
               engine |->
                 [activation_price |->
                      calculate_activation_price(pos, atr_val).activation_price,
                  stop_price |->
                      calculate_stop_price(pos, atr_val, trailing).stop_price]]

(* max_ops: None (the empty sequence) or a given number of operations, *)
(* zero included                                                       *)
MaxOps == {<<>>, <<0>>, <<1>>, <<2>>}

SimulateStart ==
    /\ call = NoCall
    /\ UNCHANGED engine_vars
    /\ \E df \in SeqsUpTo(Rows, MaxRows), fee_rate \in FeeRates,
          max_ops \in MaxOps :
        call' = simulate_start(df, fee_rate, max_ops)

(* simulate_operations called a second time in the same process, on the   *)
(* inputs of the first call, whose result is kept for comparison          *)
SimulateAgain ==
    /\ UNCHANGED engine_vars
    /\ call.op = "simulate_operations"
    /\ call.returned
    /\ call.run = 1
    /\ call' = [simulate_start(call.df, call.fee_rate, call.max_ops)
                   EXCEPT !.run = 2, !.first_ops = call.ops]

(* one row of the main loop; the function returns after the last row or   *)
(* at the break of max_ops                                                *)
SimulateBar ==
    /\ UNCHANGED engine_vars
    /\ call.op = "simulate_operations"
    /\ ~call.returned
    /\ LET st == sim_bar(call, call.row)
       IN  call' = [st EXCEPT !.row = call.row + 1,
                              !.returned = st.returned \/ call.row = Len(call.df)]

(* update_trailing_state, lines 244-284: one iteration of the loop over the *)
(* positions; close is TRUE when the iteration calls close_position         *)
update_iteration(pos, atr_val, current_price, current_balance) ==
    IF ~trailing_active(pos)
    THEN [pos |-> pending_step(pos, atr_val, current_price), close |-> FALSE]
    ELSE IF close_condition(recalibrated(pos, atr_val), current_price,
                            current_balance)
    THEN [pos |-> recalibrated(pos, atr_val), close |-> TRUE]
    ELSE [pos |-> trailed(recalibrated(pos, atr_val), atr_val, current_price),
          close |-> FALSE]

(* the ATR of the session that created the position (100.00) and the ATR   *)
(* values of the next session, on both edges of the 80%-120% band of it    *)
FirstAtr == 10000

SessionAtrs == {7999, 8000, 10000, 11500, 12000, 12001}

(* current prices of the next session, for a position that sells; a        *)
(* position that buys gets the prices mirrored at its entry price          *)
SessionPrices == {203000, 204500, 205000, 207000, 208000, 208001, 209000, 212000}

(* the price of the session that activated the position                    *)
FirstTrailing == 208000

mirrored(side, entry_price, p) ==
    IF side = "sell" THEN p ELSE 2 * entry_price - p

(* the position that process_closed_order creates for order o, pending or  *)
(* activated by a first session at ATR FirstAtr                            *)
session_position(o, active) ==
    LET pos == new_position(o, OrderInfo(o), FirstAtr)
    IN  IF active
        THEN pending_step(pos, FirstAtr,
                          mirrored(pos.side, pos.entry_price, FirstTrailing))
        ELSE pos

(* one iteration of update_trailing_state on one position, with the prices *)
(* and ATR values of SessionPrices and SessionAtrs                         *)
UpdateIteration ==
    /\ call = NoCall
    /\ UNCHANGED engine_vars
    /\ \E o \in {"O1", "O2"}, active \in BOOLEAN, p \in SessionPrices,
          current_atr \in SessionAtrs :
        LET pos           == session_position(o, active)
            current_price == mirrored(pos.side, pos.entry_price, p)
            atr_val       == IF cfg.MODE = "dualk"
                             THEN calculate_atr_value(pos.side, current_price,
                                                      current_atr)
                             ELSE current_atr
            r             == update_iteration(pos, atr_val, current_price,
                                              [asset |-> 3000, fiat |-> 0])
        IN  call' = [op |-> "update_trailing_state", before |-> pos,
                     current_price |-> current_price, atr_val |-> atr_val,
                     after |-> r.pos, close |-> r.close]

(* ATR values around the edges of the deviation bands of a stored ATR of  *)
(* FirstAtr: 80% and 120% of it, and it over 120% and over 80%            *)
BandAtrs == {7999, 8000, 8001, 8100, 8333, 8334, 10000, 12000, 12001, 12500,
             12501}

(* the deviation test of a session of the live engine (main.py, lines 257  *)
(* and 272, on the round(atr_val, 1) stored at lines 161 and 175) and of a *)
(* bar of the Simulator (backtest.py, lines 187 and 205, on the ATR stored *)
(* at lines 188 and 206), for the same stored and current ATR              *)
RecalibrationBand ==
    /\ call = NoCall
    /\ UNCHANGED engine_vars
    /\ \E stored \in {FirstAtr, 12000}, current_atr \in BandAtrs :
        call' = [op |-> "recalibration_band", stored |-> stored,
                 atr |-> current_atr,
                 engine |-> atr_deviates(RoundAtr(stored), current_atr),
                 simulator |-> outside_atr_limits(stored, current_atr)]

(* balances of a session: the asset held, in 1e-8, and no fiat *)
SessionBalances == { [asset |-> a, fiat |-> 0] : a \in {1000, 2500, 3000} }

(* lines 244-284: the loop of update_trailing_state over the positions ids *)
(* of pair_state, every iteration with the current_balance of the session; *)
(* every closing order is accepted.  sold lists the positions closed.      *)
RECURSIVE update_trailing_state(_, _, _, _, _)
update_trailing_state(pair_state, ids, atr_val, current_price, current_balance) ==
    IF ids = <<>>
    THEN [pair_state |-> pair_state, sold |-> <<>>]
    ELSE LET id   == Head(ids)
             r    == update_iteration(pair_state[id], atr_val, current_price,
                                      current_balance)
             rest == update_trailing_state(
                         IF r.close THEN Del(pair_state, id)
                                    ELSE Put(pair_state, id, r.pos),
                         Tail(ids), atr_val, current_price, current_balance)
         IN  [pair_state |-> rest.pair_state,
              sold |-> IF r.close THEN <<close_update(r.pos)>> \o rest.sold
                                  ELSE rest.sold]

(* update_trailing_state on the active sell positions of the orders O1 and *)
(* O3, or of O1 alone                                                      *)
UpdateTrailingState ==
    /\ call = NoCall
    /\ UNCHANGED engine_vars
    /\ \E ids \in {<<"O1">>, <<"O1", "O3">>}, current_price \in SessionPrices,
          current_atr \in SessionAtrs, current_balance \in SessionBalances :
        LET pair_state == [id \in {ids[i] : i \in DOMAIN ids} |->
                              session_position(id, TRUE)]
            atr_val    == IF cfg.MODE = "dualk"
                          THEN calculate_atr_value("sell", current_price,
                                                   current_atr)
                          ELSE current_atr
            r          == update_trailing_state(pair_state, ids, atr_val,
                                                current_price, current_balance)
        IN  call' = [op |-> "update_trailing_state_loop", before |-> pair_state,
                     current_price |-> current_price, atr_val |-> atr_val,
                     current_balance |-> current_balance,
                     after |-> r.pair_state, sold |-> r.sold]

-----------------------------------------------------------------------------
(* src/trading/optimize_params.py: the exhaustive search of main *)

(* number of candidates of the grid *)
MaxCandidates == 3

Score(total_pnl, ops, pnl_samples) ==
    [total_pnl |-> total_pnl, ops |-> ops, pnl_samples |-> pnl_samples]

(* the scores of the runs of simulate_operations under one candidate: on   *)
(* the whole series, on the train and test parts (RESET), and the whole    *)
(* run cut at the boundary (CONTINUE), whose parts add up to the whole     *)
CandidateRuns ==
    { [in_sample   |-> Score(20 + ce, 3 + n, 2 + n),
       reset_train |-> Score(20, 3, 2),
       reset_test  |-> Score(re, 1 + n, n),
       cont_train  |-> Score(20, 3, 2),
       cont_test   |-> Score(ce, n, n)] :
          ce \in {-20, 40}, re \in {-40, 60}, n \in {0, 2} }

score_key(score) == [pnl |-> score.total_pnl, n |-> score.pnl_samples]

robust_key(train, test) ==
    [pnl |-> Min(train.total_pnl, test.total_pnl),
     n   |-> Min(train.pnl_samples, test.pnl_samples)]

(* a worst case that looks at the RESET split only *)
overall_robust_key_reset(reset_train, reset_test, cont_train, cont_test) ==
    robust_key(reset_train, reset_test)

overall_robust_key(reset_train, reset_test, cont_train, cont_test) ==
    [pnl |-> Min(robust_key(reset_train, reset_test).pnl,
                 robust_key(cont_train, cont_test).pnl),
     n   |-> Min(robust_key(reset_train, reset_test).n,
                 robust_key(cont_train, cont_test).n)]

(* every total_pnl of CandidateRuns is even: the mean is exact *)
combined_key_from_robust(in_sample, robust) ==
    [pnl |-> (in_sample.total_pnl + robust.pnl) \div 2,
     n   |-> Min(in_sample.pnl_samples, robust.n)]

combined_key(in_sample, train, test) ==
    combined_key_from_robust(in_sample, robust_key(train, test))

(* the order of the tuples (pnl, n) *)
key_less(a, b) == a.pnl < b.pnl \/ (a.pnl = b.pnl /\ a.n < b.n)

(* list.sort(key, reverse=True)[0]: the first of the entries whose key is *)
(* maximal, the sort being stable                                         *)
sorted_first(entries) ==
    entries[CHOOSE i \in 1..Len(entries) :
                /\ \A j \in 1..Len(entries) : ~key_less(entries[i].key, entries[j].key)
                /\ \A j \in 1..(i - 1) : entries[j].key # entries[i].key]

(* the train and test scores of the split method; RESET ones under BOTH *)
train_score_of(st, r) ==
    IF st.test_empty THEN r.in_sample
    ELSE IF st.split_method = "CONTINUE" THEN r.cont_train
    ELSE r.reset_train

test_score_of(st, r) ==
    IF st.split_method = "CONTINUE" THEN r.cont_test ELSE r.reset_test

(* too few P&L samples on the train part *)
fails_min_ops(st, r) ==
    IF st.split_method = "BOTH"
    THEN Min(r.reset_train.pnl_samples, r.cont_train.pnl_samples) < st.min_ops
    ELSE train_score_of(st, r).pnl_samples < st.min_ops

(* too few P&L samples on the test part *)
fails_min_test_ops(st, r) ==
    IF st.split_method = "BOTH"
    THEN Min(r.reset_test.pnl_samples, r.cont_test.pnl_samples) < st.min_test_ops
    ELSE test_score_of(st, r).pnl_samples < st.min_test_ops

(* the ranking key of a candidate that passed both thresholds *)
ranking_key(st, r) ==
    IF st.split_method = "BOTH"
    THEN IF st.rank_mode = "MEAN"
         THEN combined_key_from_robust(
                  r.in_sample,
                  overall_robust_key(r.reset_train, r.reset_test,
                                     r.cont_train, r.cont_test))
         ELSE overall_robust_key(r.reset_train, r.reset_test,
                                 r.cont_train, r.cont_test)
    ELSE IF st.rank_mode = "MEAN"
         THEN combined_key(r.in_sample, train_score_of(st, r), test_score_of(st, r))
         ELSE robust_key(train_score_of(st, r), test_score_of(st, r))

(* the body of the loop over the candidates for a candidate whose runs    *)
(* score r: the candidate is applied to TRADING_PARAMS, scored, discarded *)
(* or appended to best (no test part) or to evaluated; under BOTH without *)
(* a test part reset_train is read before any assignment and the search   *)
(* ends with that error                                                   *)
candidate_step(st, r) ==
    LET cand == Len(st.runs) + 1
        s1   == [st EXCEPT !.runs = Append(st.runs, r), !.applied = cand]
    IN  IF st.split_method = "BOTH" /\ st.test_empty
        THEN [s1 EXCEPT !.step = "error"]
        ELSE IF fails_min_ops(st, r) THEN s1
        ELSE IF st.test_empty
        THEN [s1 EXCEPT !.best = Append(st.best,
                            [key |-> score_key(r.in_sample),
                             in_sample |-> r.in_sample, cand |-> cand])]
        ELSE IF fails_min_test_ops(st, r) THEN s1
        ELSE [s1 EXCEPT !.evaluated = Append(st.evaluated,
                            [key |-> ranking_key(st, r),
                             in_sample |-> r.in_sample,
                             train |-> train_score_of(st, r),
                             test |-> test_score_of(st, r),
                             cand |-> cand])]

(* the report after the loop: exit code 2 or 3 when nothing is left, else *)
(* the first entry of the sorted list; under BOTH the CONTINUE scores of  *)
(* the report come from a new run under the TRADING_PARAMS in place       *)
optimize_report(st) ==
    IF st.test_empty
    THEN IF st.best = <<>>
         THEN [st EXCEPT !.step = "exit", !.exit_code = 2]
         ELSE [st EXCEPT !.step = "done",
                         !.best_cand = sorted_first(st.best).cand,
                         !.key = sorted_first(st.best).key]
    ELSE IF st.evaluated = <<>>
         THEN [st EXCEPT !.step = "exit", !.exit_code = 3]
         ELSE [st EXCEPT !.step = "done",
                         !.best_cand = sorted_first(st.evaluated).cand,
                         !.key = sorted_first(st.evaluated).key,
                         !.overall =
                            IF st.split_method = "BOTH"
                            THEN overall_robust_key(
                                     sorted_first(st.evaluated).train,
                                     sorted_first(st.evaluated).test,
                                     st.runs[st.applied].cont_train,
                                     st.runs[st.applied].cont_test)
                            ELSE robust_key(sorted_first(st.evaluated).train,
                                            sorted_first(st.evaluated).test)]

(* the arguments of the search: RANK=MEAN needs a test part *)
OptimizeStart ==
    /\ call = NoCall
    /\ UNCHANGED engine_vars
    /\ \E split_method \in {"RESET", "CONTINUE", "BOTH"},
          rank_mode \in {"ROBUST", "MEAN"}, test_empty \in BOOLEAN,
          min_ops \in {0, 1} :
        /\ rank_mode = "MEAN" => ~test_empty
        /\ call' = [op |-> "optimize_params", split_method |-> split_method,
                    rank_mode |-> rank_mode, test_empty |-> test_empty,
                    min_ops |-> min_ops, min_test_ops |-> min_ops,
                    runs |-> <<>>, applied |-> 0, best |-> <<>>,
                    evaluated |-> <<>>, step |-> "loop", exit_code |-> 0,
                    best_cand |-> 0, key |-> score_key(Score(0, 0, 0)),
                    overall |-> score_key(Score(0, 0, 0))]

OptimizeCandidate ==
    /\ UNCHANGED engine_vars
    /\ call.op = "optimize_params"
    /\ call.step = "loop"
    /\ Len(call.runs) < MaxCandidates
    /\ \E r \in CandidateRuns : call' = candidate_step(call, r)

OptimizeReport ==
    /\ UNCHANGED engine_vars
    /\ call.op = "optimize_params"
    /\ call.step = "loop"
    /\ Len(call.runs) = MaxCandidates
    /\ call' = optimize_report(call)

-----------------------------------------------------------------------------
(* src/core/runtime.py: the data shared by the main loop and the control   *)
(* thread.  Python dicts are objects of a heap: heap[id] maps each key to  *)
(* [val |-> n] or to [ref |-> id of another dict]; two names that hold the *)
(* same id are the same dict.                                              *)

(* number of dict objects a scenario may allocate *)
MaxObjects == 7

(* prices, amounts and stops stored by the main loop *)
RuntimeValues == {1, 2}

Val(n) == [val |-> n]

Ref(id) == [ref |-> id]

(* a new dict object; its id is the new length of the heap *)
alloc(heap, obj) == Append(heap, obj)

(* _shared_data of lines 6-10: three empty dicts *)
runtime_start ==
    [heap   |-> <<Empty, Empty, Empty>>,
     shared |-> [last_balance |-> 1, pairs_data |-> 2, trailing_state |-> 3]]

(* the value of a dict with the values of the dicts it refers to *)
deep_value(heap, id) ==
    [k \in DOMAIN heap[id] |->
        IF "ref" \in DOMAIN heap[id][k] THEN heap[heap[id][k].ref]
        ELSE heap[id][k]]

(* copy.deepcopy of a dict of dicts: every dict of the copy is new *)
deepcopy(heap, id) ==
    IF \E k \in DOMAIN heap[id] : "ref" \in DOMAIN heap[id][k]
    THEN LET k     == CHOOSE x \in DOMAIN heap[id] : "ref" \in DOMAIN heap[id][x]
             inner == alloc(heap, heap[heap[id][k].ref])
         IN  [heap |-> alloc(inner, [heap[id] EXCEPT ![k] = Ref(Len(inner))]),
              ret  |-> Len(inner) + 1]
    ELSE [heap |-> alloc(heap, heap[id]), ret |-> Len(heap) + 1]

(* a read that returns the shared dict itself *)
shared_reference(heap, id) == [heap |-> heap, ret |-> id]

(* lines 12-14: the dict of the caller, or a new {} when it is empty *)
update_balance(rt, new_balance) ==
    IF rt.heap[new_balance] # Empty
    THEN [rt EXCEPT !.shared.last_balance = new_balance]
    ELSE [rt EXCEPT !.heap = alloc(rt.heap, Empty),
                    !.shared.last_balance = Len(rt.heap) + 1]

(* lines 16-18: return _shared_data["last_balance"] *)
get_last_balance(rt) == shared_reference(rt.heap, rt.shared.last_balance)

(* lines 20-25: the dict of the pair is created once and written in place *)
update_pair_data(rt, pair, last_price) ==
    LET pairs_data == rt.heap[rt.shared.pairs_data]
        h1 == IF pair \in DOMAIN pairs_data THEN rt.heap
              ELSE [alloc(rt.heap, Empty) EXCEPT ![rt.shared.pairs_data] =
                        Put(pairs_data, pair, Ref(Len(rt.heap) + 1))]
        id == h1[rt.shared.pairs_data][pair].ref
    IN  IF last_price = Absent THEN [rt EXCEPT !.heap = h1]
        ELSE [rt EXCEPT !.heap = [h1 EXCEPT ![id] =
                                     Put(h1[id], "last_price", Val(last_price))]]

(* lines 31-33: _shared_data["pairs_data"].get(pair, {}) *)
get_pair_data(rt, pair) ==
    IF pair \in DOMAIN rt.heap[rt.shared.pairs_data]
    THEN shared_reference(rt.heap, rt.heap[rt.shared.pairs_data][pair].ref)
    ELSE [heap |-> alloc(rt.heap, Empty), ret |-> Len(rt.heap) + 1]

(* lines 35-37: the dict of the caller, or a new {} when it is empty *)
runtime_update_trailing_state(rt, trailing_state) ==
    IF rt.heap[trailing_state] # Empty
    THEN [rt EXCEPT !.shared.trailing_state = trailing_state]
    ELSE [rt EXCEPT !.heap = alloc(rt.heap, Empty),
                    !.shared.trailing_state = Len(rt.heap) + 1]

(* lines 39-42: copy.deepcopy(_shared_data["trailing_state"]) *)
get_trailing_state(rt) == deepcopy(rt.heap, rt.shared.trailing_state)

(* the caller writes into the dict it was given: into the position dict of *)
(* a trailing state, into the dict itself otherwise                        *)
mutate_returned(heap, id) ==
    LET target == IF \E k \in DOMAIN heap[id] : "ref" \in DOMAIN heap[id][k]
                  THEN heap[id][CHOOSE k \in DOMAIN heap[id] :
                                    "ref" \in DOMAIN heap[id][k]].ref
                  ELSE id
    IN  [heap EXCEPT ![target] = Put(heap[target], "note", Val(99))]

(* the value of the shared data read by accessor *)
shared_value(rt, accessor) ==
    CASE accessor = "get_last_balance" ->
             deep_value(rt.heap, rt.shared.last_balance)
      [] accessor = "get_pair_data" ->
             deep_value(rt.heap, rt.shared.pairs_data)
      [] accessor = "get_trailing_state" ->
             deep_value(rt.heap, rt.shared.trailing_state)

(* the module is imported *)
RuntimeStart ==
    /\ call = NoCall
    /\ UNCHANGED engine_vars
    /\ call' = [op |-> "runtime", rt |-> runtime_start, accessor |-> "none",
                held |-> 0, returned |-> Empty, mutated |-> FALSE,
                shared_before |-> Empty]

(* the main loop publishes a balance, a price or its trailing state *)
RuntimeUpdate ==
    /\ UNCHANGED engine_vars
    /\ call.op = "runtime"
    /\ ~call.mutated
    /\ Len(call.rt.heap) + 2 <= MaxObjects
    /\ \E v \in RuntimeValues \cup {Absent} :
        LET heap == call.rt.heap
            bal  == [call.rt EXCEPT !.heap =
                        alloc(heap, IF v = Absent THEN Empty
                                    ELSE Put(Empty, "XXBT", Val(v)))]
            pos  == alloc(heap, Put(Empty, "stop_price", Val(v)))
            ts   == [call.rt EXCEPT !.heap =
                        IF v = Absent THEN alloc(heap, Empty)
                        ELSE alloc(pos, Put(Empty, PAIR, Ref(Len(pos))))]
        IN  \/ call' = [call EXCEPT !.rt = update_balance(bal, Len(bal.heap))]
            \/ call' = [call EXCEPT !.rt = update_pair_data(call.rt, PAIR, v)]
            \/ call' = [call EXCEPT !.rt =
                           runtime_update_trailing_state(ts, Len(ts.heap))]

(* the control thread reads through one accessor and keeps the result *)
RuntimeGet ==
    /\ UNCHANGED engine_vars
    /\ call.op = "runtime"
    /\ call.accessor = "none"
    /\ Len(call.rt.heap) + 2 <= MaxObjects
    /\ \E accessor \in {"get_last_balance", "get_pair_data", "get_trailing_state"} :
        LET r == CASE accessor = "get_last_balance" -> get_last_balance(call.rt)
                   [] accessor = "get_pair_data" -> get_pair_data(call.rt, PAIR)
                   [] accessor = "get_trailing_state" -> get_trailing_state(call.rt)
        IN  call' = [call EXCEPT !.rt.heap = r.heap, !.accessor = accessor,
                                 !.held = r.ret,
                                 !.returned = deep_value(r.heap, r.ret)]

(* the control thread writes into the value it was given *)
RuntimeMutate ==
    /\ UNCHANGED engine_vars
    /\ call.op = "runtime"
    /\ call.accessor # "none"
    /\ ~call.mutated
    /\ call' = [call EXCEPT
                   !.rt.heap = mutate_returned(call.rt.heap, call.held),
                   !.mutated = TRUE,
                   !.shared_before = shared_value(call.rt, call.accessor)]

NextTools ==
    \/ Merge
    \/ GetKStop
    \/ GetKStopCandidate
    \/ GetVolatilityLevel
    \/ VolLevelFromAtr
    \/ CalculateKStops
    \/ QuantileCeiled
    \/ DetectPivots
    \/ Formulas
    \/ SimulateStart
    \/ SimulateBar
    \/ SimulateAgain
    \/ UpdateIteration
    \/ UpdateTrailingState
    \/ RecalibrationBand
    \/ OptimizeStart
    \/ OptimizeCandidate
    \/ OptimizeReport
    \/ RuntimeStart
    \/ RuntimeUpdate
    \/ RuntimeGet
    \/ RuntimeMutate

SpecTools == Init /\ [][NextTools]_vars

-----------------------------------------------------------------------------
(* Properties of the offline tools and of the pure functions *)

(* C12, as the code computes it: after a merge the surviving sell-side    *)
(* position has the sum of the volumes and the cost round(volume *        *)
(* entry_price, 2) at the entry price of the existing position; the       *)
(* surviving buy-side position has the sum of the costs and the volume    *)
(* round(cost / entry_price, 8)                                           *)
C12_MergeTotals ==
    call.op = "merge" =>
        LET e == call.existing
            o == call.order
            m == call.after["O1"]
        IN  /\ DOMAIN call.after = {"O1"}
            /\ e.side = "sell" =>
                   /\ m.volume = e.volume + o.vol_exec
                   /\ m.cost = RoundDiv(m.volume * e.entry_price, 10000000)
            /\ e.side = "buy" =>
                   /\ m.cost = e.cost + o.cost
                   /\ m.volume = RoundDiv(m.cost * 10000000, e.entry_price)

(* C12 as stated: after a merge the surviving position's volume is the    *)
(* sum of the volumes and its cost the sum of the costs, on both sides    *)
C12_SumOfVolumesAndCosts ==
    call.op = "merge" =>
        /\ call.after["O1"].volume = call.existing.volume + call.order.vol_exec
        /\ call.after["O1"].cost = call.existing.cost + call.order.cost

C12_Witness ==
    /\ call.op = "merge"
    /\ call.existing.side = "sell"
    /\ call.after["O1"].opening_order = <<"O1", "O2">>
    /\ call.after["O1"].volume = call.existing.volume + call.order.vol_exec
    /\ call.after["O1"].cost # call.existing.cost + call.order.cost

(* C15: get_k_stop returns a K_STOP for every ATR value whenever at least *)
(* one level on either side has one, and None only if no level on either  *)
(* side has data                                                         *)
C15_FallbackTotality ==
    call.op = "get_k_stop" =>
        (call.k_stop = Absent
            <=> \A s \in {"buy", "sell"}, l \in {"LV", "MV", "HV", "EV"} :
                    call.params[s][l] = Absent)

(* the level of the five ordered breakpoint ranges *)
LevelOfRange(atr_val) ==
    CHOOSE l \in {"LL", "LV", "MV", "HV", "HH"} :
        \/ l = "LL" /\ atr_val < AtrPct.atr_20pct
        \/ l = "LV" /\ AtrPct.atr_20pct <= atr_val /\ atr_val < AtrPct.atr_50pct
        \/ l = "MV" /\ AtrPct.atr_50pct <= atr_val /\ atr_val < AtrPct.atr_80pct
        \/ l = "HV" /\ AtrPct.atr_80pct <= atr_val /\ atr_val < AtrPct.atr_95pct
        \/ l = "HH" /\ AtrPct.atr_95pct <= atr_val

(* C16: the volatility classifier maps an ATR value to the one of the     *)
(* five levels whose breakpoint range contains it: below P20 LL, then LV, *)
(* MV, HV, and HH from P95 on                                             *)
C16_FiveLevels ==
    call.op \in {"get_volatility_level", "_vol_level_from_atr"} =>
        call.level = LevelOfRange(call.atr_val)

(* the k-values of the events of a level and the percentile of the level *)
LevelKValues(events_data, level) ==
    LET events == SelectSeq(events_data,
                      LAMBDA e : get_volatility_level(e.atr_at_max) = level)
    IN  [i \in 1..Len(events) |-> events[i].k_value]

LevelPct(level) == IF level \in {"LV", "MV"} THEN 90 ELSE 75

(* value is the raw percentile q rounded up to a multiple of 0.1 *)
CeilingOf(value, q) ==
    /\ value # Absent
    /\ value % 1000 = 0
    /\ value >= q
    /\ value - q < 1000

(* C17: every K_STOP the calibration produces is a multiple of 0.1, at    *)
(* least the raw percentile of the k-values of its level and less than    *)
(* 0.1 above it; a level with no events has no value                      *)
C17_CeilingProperty ==
    /\ call.op = "calculate_k_stops" =>
           \A level \in {"LV", "MV", "HV", "EV"} :
               LET values == LevelKValues(call.events_data, level)
               IN  IF values = <<>> THEN call.k_stops[level] = Absent
                   ELSE CeilingOf(call.k_stops[level],
                                  quantile(values, LevelPct(level)))
    /\ call.op = "_quantile_ceiled" =>
           IF call.values = <<>> THEN call.k_stop = Absent
           ELSE CeilingOf(call.k_stop, quantile(call.values, call.pct))

C17_Witness ==
    /\ call.op = "calculate_k_stops"
    /\ call.k_stops["MV"] = Absent
    /\ Len(LevelKValues(call.events_data, "LV")) = 2
    /\ call.k_stops["LV"] > quantile(LevelKValues(call.events_data, "LV"), 90)
    /\ quantile(LevelKValues(call.events_data, "LV"), 90) % 1000 < 500

(* C18: when detect_pivots returns, no two adjacent pivots of its result  *)
(* have the same type: minima and maxima strictly alternate               *)
C18_Alternation ==
    (call.op = "detect_pivots" /\ call.result.returns) =>
        \A k \in 1..(Len(call.result.pivots) - 1) :
            call.result.pivots[k].type # call.result.pivots[k + 1].type

C18_Witness ==
    /\ call.op = "detect_pivots"
    /\ call.result.returns
    /\ Len(call.result.pivots) >= 3
    /\ \E k \in 1..(Len(call.candidates) - 1) :
           call.candidates[k].type = call.candidates[k + 1].type

(* C19: for every side, entry price, trailing price and ATR the           *)
(* Simulator's activation price and stop price equal those of the live    *)
(* engine for the same inputs and parameters                              *)
C19_SameFormulas ==
    call.op = "formulas" =>
        /\ call.simulator = call.positions_manager
        /\ call.simulator = call.engine

(* C20: the list of simulate_operations starts with a buy at the close of *)
(* the first bar with a valid ATR, its sides alternate, its idx values    *)
(* are 1..n in order, and each exit executes at the stop price, which     *)
(* becomes the entry price of the next position                           *)
C20_SimulatedOperations ==
    call.op = "simulate_operations" =>
        LET ops   == call.ops
            n     == Len(call.ops)
            first == first_valid_row(call.df)
            broke == call.max_ops # <<>> /\ n >= 2 /\ n >= call.max_ops[1]
        IN  /\ (ops = <<>>) <=> (first = 0)
            /\ n >= 1 =>
                   /\ ops[1].side = "buy"
                   /\ ops[1].time = first
                   /\ ops[1].price = call.df[first].close
            /\ \A k \in 1..n : ops[k].idx = k
            /\ \A k \in 1..(n - 1) : ops[k].side # ops[k + 1].side
            /\ n >= 2 => ops[n].price = call.exit_stop
            /\ (n >= 1 /\ ~broke) =>
                   /\ call.entry_price = ops[n].price
                   /\ call.side # ops[n].side

C20_Witness ==
    /\ call.op = "simulate_operations"
    /\ call.returned
    /\ call.max_ops = <<>>
    /\ Len(call.ops) = 3
    /\ ~valid_atr(call.df[1].atr)
    /\ call.ops[2].price # call.ops[1].price

-----------------------------------------------------------------------------
(* Properties of the update of an active position *)

(* C27: recalibrating the stop of an active position because the ATR left *)
(* the deviation band never by itself closes the position: when the       *)
(* current price has not crossed the stop in effect before the            *)
(* recalibration, the iteration places no closing order.                  *)
C27_RecalibrationNeverCloses ==
    [][ \A id \in OrderIds :
          ( /\ UpdateStepOf(id)
            /\ trailing_active(mem[id])
            /\ atr_deviates(mem[id].stop_atr, AtrVal(mem[id]))
            /\ ~stop_hit(mem[id], price) )
          => placed' = placed
      ]_vars

-----------------------------------------------------------------------------
(* Properties of the stop of the process *)

(* C26: when the process is stopped while a session is in progress, the   *)
(* session persists its state before the process exits: every position    *)
(* the session created, merged, activated, trailed or closed is in the    *)
(* persisted trailing state at exit.                                      *)
C26_StopPersistsSession ==
    [][ ( pc # "idle" /\ pc' = "idle" ) => disk' = mem ]_vars

(* the call is one iteration of update_trailing_state *)
IsUpdateIteration == call.op = "update_trailing_state"

(* C28: when an iteration advances trailing_price on a favourable move,   *)
(* the recomputed stop_price is never less favourable than the stop_price *)
(* before the move (sell: not lower; buy: not higher), for every current  *)
(* ATR inside the deviation band of stop_atr.                             *)
C28_StopNeverWidensOnFavourableMove ==
    ( /\ IsUpdateIteration
      /\ trailing_active(call.before)
      /\ ~call.close
      /\ trail_condition(call.before, call.current_price)
      /\ 8 * call.before.stop_atr <= call.atr_val
      /\ call.atr_val <= 12 * call.before.stop_atr )
    => /\ call.after.trailing_price = call.current_price
       /\ StopNotLooser(call.before, call.after)

(* C29: when the current price is at or beyond the stored activation_price *)
(* of a pending position in its favour (sell: price >= activation_price;   *)
(* buy: price <= activation_price) and the current ATR equals its          *)
(* activation_atr, the iteration activates the position, whatever the      *)
(* recenter parameters are.                                                *)
C29_ActivationWhenReached ==
    ( /\ IsUpdateIteration
      /\ ~trailing_active(call.before)
      /\ activation_reached(call.before, call.current_price)
      /\ call.atr_val = 10 * call.before.activation_atr )
    => trailing_active(call.after)

(* quantity and entry of the position are those before the iteration *)
SameEntry(p, q) ==
    /\ q.entry_price = p.entry_price
    /\ q.volume = p.volume
    /\ q.cost = p.cost

(* the current ATR is below 80% or above 120% of the stored ATR (tenths) *)
OutsideBand(stored_atr, atr_val) ==
    \/ 100 * atr_val < 80 * (10 * stored_atr)
    \/ 100 * atr_val > 120 * (10 * stored_atr)

(* entry_price +/- the activation distance, for the side of the position *)
ActivationFromEntry(pos, atr_val) ==
    ExpectedActivation(IF pos.side = "sell" THEN "buy" ELSE "sell",
                       pos.entry_price, atr_val)

(* C30: in an iteration without recentering, a pending position's          *)
(* activation_price and activation_atr are recomputed from the current ATR *)
(* exactly when the current ATR is below 80% or above 120% of              *)
(* activation_atr; inside that band they are left unchanged; entry_price,  *)
(* volume and cost are unchanged in both cases.                            *)
C30_PendingRecalibration ==
    ( /\ IsUpdateIteration
      /\ ~trailing_active(call.before)
      /\ ~check_recenter_activation(call.before, call.atr_val,
                                    call.current_price) )
    => /\ SameEntry(call.before, call.after)
       /\ IF OutsideBand(call.before.activation_atr, call.atr_val)
          THEN /\ call.after.activation_price
                    = ActivationFromEntry(call.before, call.atr_val)
               /\ call.after.activation_atr = RoundAtr(call.atr_val)
          ELSE /\ call.after.activation_price = call.before.activation_price
               /\ call.after.activation_atr = call.before.activation_atr

(* a pending position was recalibrated at an ATR just above 120% of its *)
(* activation_atr, without recentering                                  *)
C30_Witness ==
    /\ IsUpdateIteration
    /\ ~trailing_active(call.before)
    /\ ~check_recenter_activation(call.before, call.atr_val, call.current_price)
    /\ call.atr_val = 12001
    /\ call.before.activation_atr = 1000
    /\ call.after.activation_atr = 1200
    /\ call.after.activation_price # call.before.activation_price

-----------------------------------------------------------------------------
(* Properties of repeated runs of the Simulator *)

(* C21: running simulate_operations twice on the same series, parameters, *)
(* fee rate and max_ops yields the same sequence of operations, fees and  *)
(* P&L figures included; nothing left by the first run reaches the second *)
C21_BacktestDeterminism ==
    ( /\ call.op = "simulate_operations"
      /\ call.run = 2
      /\ call.returned )
    => call.ops = call.first_ops

(* a second run with a fee has returned three operations *)
C21_Witness ==
    /\ call.op = "simulate_operations"
    /\ call.run = 2
    /\ call.returned
    /\ call.fee_rate # 0
    /\ Len(call.ops) = 3
    /\ call.ops[3].cum_pnl # call.ops[2].cum_pnl

-----------------------------------------------------------------------------
(* Properties of the Parameter Optimizer *)

(* the search of optimize_params has reported a best candidate *)
OptimizeDone == call.op = "optimize_params" /\ call.step = "done"

(* min(train net P&L, test net P&L) of the runs r of one candidate *)
RobustReset(r) == Min(r.reset_train.total_pnl, r.reset_test.total_pnl)

RobustContinue(r) == Min(r.cont_train.total_pnl, r.cont_test.total_pnl)

(* the robust figure of the split method: the minimum over both under BOTH *)
RobustFigure(r) ==
    CASE call.split_method = "RESET"    -> RobustReset(r)
      [] call.split_method = "CONTINUE" -> RobustContinue(r)
      [] call.split_method = "BOTH"     -> Min(RobustReset(r), RobustContinue(r))

(* twice the ranking key: the robust figure under ROBUST, the average of  *)
(* the in-sample net P&L and the robust figure under MEAN                 *)
TwiceRankingKey(r) ==
    IF call.rank_mode = "ROBUST" THEN 2 * RobustFigure(r)
    ELSE r.in_sample.total_pnl + RobustFigure(r)

(* the P&L samples of the train and test parts under the split method *)
TrainSamples(r) ==
    CASE call.split_method = "RESET"    -> r.reset_train.pnl_samples
      [] call.split_method = "CONTINUE" -> r.cont_train.pnl_samples
      [] call.split_method = "BOTH"     ->
             Min(r.reset_train.pnl_samples, r.cont_train.pnl_samples)

TestSamples(r) ==
    CASE call.split_method = "RESET"    -> r.reset_test.pnl_samples
      [] call.split_method = "CONTINUE" -> r.cont_test.pnl_samples
      [] call.split_method = "BOTH"     ->
             Min(r.reset_test.pnl_samples, r.cont_test.pnl_samples)

(* the candidate fails a minimum operation count on train or on test *)
Discarded(r) ==
    TrainSamples(r) < call.min_ops \/ TestSamples(r) < call.min_test_ops

(* C22: with a test part, the optimizer reports as best a non-discarded   *)
(* candidate whose ranking key is maximal among the non-discarded ones;   *)
(* the key is min(train net P&L, test net P&L) under ROBUST, the average  *)
(* of the in-sample net P&L and that robust figure under MEAN, and under  *)
(* BOTH the robust figure is the minimum over the RESET and the CONTINUE  *)
(* splits.                                                                *)
C22_BestCandidate ==
    ( OptimizeDone /\ ~call.test_empty ) =>
        /\ call.best_cand \in 1..Len(call.runs)
        /\ ~Discarded(call.runs[call.best_cand])
        /\ 2 * call.key.pnl = TwiceRankingKey(call.runs[call.best_cand])
        /\ \A c \in 1..Len(call.runs) :
               ~Discarded(call.runs[c]) =>
                   TwiceRankingKey(call.runs[c])
                       <= TwiceRankingKey(call.runs[call.best_cand])

(* under BOTH and MEAN the best candidate is not the first of the grid, *)
(* its CONTINUE figure is the worse of its two robust figures, and a    *)
(* discarded candidate had a larger key                                 *)
C22_Witness ==
    /\ OptimizeDone
    /\ call.split_method = "BOTH"
    /\ call.rank_mode = "MEAN"
    /\ call.best_cand > 1
    /\ RobustContinue(call.runs[call.best_cand])
          < RobustReset(call.runs[call.best_cand])
    /\ \E c \in 1..Len(call.runs) :
           /\ Discarded(call.runs[c])
           /\ TwiceRankingKey(call.runs[c])
                 > TwiceRankingKey(call.runs[call.best_cand])

-----------------------------------------------------------------------------
(* Properties of the control surface *)

(* C24: under any interleaving of the control thread with the main loop,  *)
(* no command (help, status, pause, resume, market, positions) creates,   *)
(* modifies or removes a position of the live trailing state, of the      *)
(* persisted trailing state or of the closed-positions store, and none    *)
(* places an order: every position mutation is a step of the main loop.   *)
C24_CommandsNeverMutatePositions ==
    [][ Command => /\ mem' = mem
                   /\ disk' = disk
                   /\ closedDisk' = closedDisk
                   /\ placed' = placed
      ]_vars

(* the positions command has answered with the persisted pending position *)
(* while the session in progress holds it activated                       *)
C24_Witness ==
    /\ reply.cmd = "positions"
    /\ "ids" \in DOMAIN reply
    /\ reply.ids = {"O1"}
    /\ reply.active = {}
    /\ pc = "update"
    /\ "O1" \in DOMAIN mem
    /\ trailing_active(mem["O1"])

(* C25: when the pause flag is set at the start of a main-loop iteration  *)
(* the iteration runs no session: no position is created, changed or      *)
(* closed, no order is placed, nothing is persisted; the flag changes     *)
(* only through the pause and resume commands (and is False again in a    *)
(* process started anew), never by a step of the main loop.               *)
C25_PauseRunsNoSession ==
    [][ /\ ( pc = "idle" /\ bot_paused )
           => /\ pc' \in {"idle", "stopped"}
              /\ mem' = mem
              /\ disk' = disk
              /\ closedDisk' = closedDisk
              /\ placed' = placed
        /\ bot_paused' # bot_paused
           => PauseCommand \/ ResumeCommand \/ Crash \/ StoppedWhileSleeping
      ]_vars

(* a paused iteration has slept after a session had saved a position *)
C25_Witness ==
    /\ ev.kind = "paused"
    /\ bot_paused
    /\ pc = "idle"
    /\ "O1" \in DOMAIN disk

-----------------------------------------------------------------------------
(* Properties of the shared runtime data *)

(* C23: every read accessor of the shared runtime data (last balance,     *)
(* pair data, trailing state) returns a deep, independent copy: a later   *)
(* update by the main loop never changes a value that was already         *)
(* returned, and mutating the returned value never changes the shared     *)
(* data.                                                                  *)
C23_AccessorsReturnCopies ==
    ( call.op = "runtime" /\ call.accessor # "none" ) =>
        /\ ~call.mutated
              => deep_value(call.rt.heap, call.held) = call.returned
        /\ call.mutated
              => shared_value(call.rt, call.accessor) = call.shared_before

-----------------------------------------------------------------------------
(* C31 *)

(* the stop of pos keeps the minimum-margin buffer from the entry price
   (prices in tenths, MIN_MARGIN in 1/10000; half a tenth allowed for the
   round(stop_price, 1) of calculate_stop_price) *)
KeepsMinMargin(pos) ==
    IF pos.side = "sell"
    THEN 10000 * pos.stop_price + 5000
             >= 10000 * pos.entry_price + cfg.MIN_MARGIN * pos.entry_price
    ELSE 10000 * pos.stop_price - 5000
             <= 10000 * pos.entry_price - cfg.MIN_MARGIN * pos.entry_price

(* C31: with the dualk clamp configured (MIN_MARGIN # 0), every active
   position of the trailing state has its stop at least the minimum-margin
   buffer away from its entry price: stop_price >= entry_price +
   MIN_MARGIN * entry_price for a sell position, stop_price <= entry_price -
   MIN_MARGIN * entry_price for a buy position. *)
C31_StopKeepsMinMargin ==
    (cfg.MODE = "dualk" /\ cfg.MIN_MARGIN # 0) =>
        \A id \in DOMAIN mem :
            trailing_active(mem[id]) => KeepsMinMargin(mem[id])

-----------------------------------------------------------------------------
(* C32 *)

(* the filled order o opened or was merged into a position of the stored    *)
(* state, of the session in progress or of closed_positions.json            *)
Consumed(o) ==
    \/ is_processed(o, disk)
    \/ is_processed(o, mem)
    \/ \E c \in closedDisk :
           \E i \in 1..Len(c.pos.opening_order) : c.pos.opening_order[i] = o

(* C32: no fill is permanently missed: a filled order that a skipped
   session or a skipped pair left unprocessed is created or merged in a
   later session, however many sessions were skipped.  An order that has
   left the window of get_closed_orders (closetm older than two sleeping
   intervals) is never returned again, so it must have been consumed. *)
C32_NoFillMissed ==
    \A o \in OrderIds : age[o] >= 2 => Consumed(o)

-----------------------------------------------------------------------------
(* C33 *)

(* number of times the order id o occurs in the opening_order lists of state *)
Occurrences(o, state) ==
    Cardinality({ <<k, i>> \in (DOMAIN state) \X (1..(Cardinality(OrderIds) + 1)) :
                     /\ i <= Len(state[k].opening_order)
                     /\ state[k].opening_order[i] = o })

(* C33: a filled order id is consumed at most once: it occurs at most once
   in the opening_order lists of the live positions, and a session that sees
   a closed order which already opened or was merged into a position, live
   or closed since, creates no position and changes no volume or cost. *)
C33_OrderConsumedOnce ==
    [][ /\ \A o \in OrderIds : Occurrences(o, mem') <= 1
        /\ ( ProcessOrder /\ Consumed(Head(queue)) ) => mem' = mem
      ]_vars

-----------------------------------------------------------------------------
(* C34 *)

RECURSIVE SoldVolume(_)
SoldVolume(sold) ==
    IF sold = <<>> THEN 0
    ELSE (IF Head(sold).side = "sell" THEN Head(sold).volume ELSE 0)
         + SoldVolume(Tail(sold))

(* C34: within one session, after all the closing sell orders placed for an
   instrument, its simulated asset allocation, every sell of the session
   accounted for, is not below the configured minimum allocation. *)
C34_AllocationAfterAllSells ==
    (call.op = "update_trailing_state_loop" /\ call.sold # <<>>) =>
        LET vol   == SoldVolume(call.sold)
            total == total_value_after(vol, call.current_balance,
                                       call.current_price)
        IN  total > 0 =>
              asset_value_after(vol, call.current_balance, call.current_price)
                  * cfg.MIN_ALLOC_D >= cfg.MIN_ALLOC_N * total

-----------------------------------------------------------------------------
(* C35 *)

(* C35: detect_pivots terminates on every finite candle series, the series
   in which an adjacent min pivot and max pivot have exactly the same price
   included: every call returns. *)
C35_DetectPivotsTerminates ==
    call.op = "detect_pivots" => call.result.returns

-----------------------------------------------------------------------------
(* C36 *)

(* C36: get_k_stop looks up the K_STOP of the level under which the
   calibration stored it and the Simulator records the bar (LL, LV, MV, HV,
   HH): if the level containing the ATR has a K_STOP for the requested
   side, get_k_stop returns exactly that value. *)
C36_KStopOfSameLevel ==
    call.op = "get_k_stop_candidate" =>
        ( call.params[call.side][call.level] # Absent
            => call.k_stop = call.params[call.side][call.level] )

-----------------------------------------------------------------------------
(* C37 *)

(* C37: for every pair (ATR the activation or stop price was last computed
   from, current ATR) the Simulator recalibrates on a bar exactly when the
   live engine recalibrates in a session with the same two values: both use
   the same deviation band. *)
C37_SameDeviationBand ==
    call.op = "recalibration_band" => call.simulator = call.engine

-----------------------------------------------------------------------------
(* C38 *)

(* the step is a bar of the Simulator with a valid ATR *)
BarStep == SimulateBar /\ valid_atr(call.df[call.row].atr)

BarHigh == call.df[call.row].high

BarLow == call.df[call.row].low

(* the activation price the bar is checked against, recalibrated if due *)
BarActivationPrice == sim_activation(call, call.df[call.row].atr).activation_price

(* the bar appended an operation: the stop was hit *)
Exited == Len(call'.ops) = Len(call.ops) + 1

(* the activation check: the high of the bar for a sell-side position, the
   low for a buy-side position *)
ActivationCheck ==
    ~call.active =>
        ( (call'.active \/ Exited)
            <=> IF call.side = "sell" THEN BarHigh >= BarActivationPrice
                                      ELSE BarLow <= BarActivationPrice )

(* C38 (amended): in the Simulator the activation check compares the bar's
   high (sell) or low (buy) against the activation price, and the stop check
   compares the opposite extreme against the stop price: the bar's low for a
   sell-side position, the bar's high for a buy-side position. *)
C38_ActivationAndStopChecks ==
    [][ BarStep =>
          /\ ActivationCheck
          /\ Exited => IF call.side = "sell"
                       THEN BarLow <= call'.exit_stop
                       ELSE BarHigh >= call'.exit_stop
          /\ (call'.active /\ ~Exited) =>
                       IF call.side = "sell"
                       THEN BarLow > call'.stop_price
                       ELSE BarHigh < call'.stop_price
      ]_vars

(* C38: both the activation check and the stop check of a sell-side
   position compare the bar's high against the threshold, and both checks of
   a buy-side position compare the bar's low against the threshold. *)
C38_SameExtremeForBothChecks ==
    [][ BarStep =>
          /\ ActivationCheck
          /\ Exited => IF call.side = "sell"
                       THEN BarHigh <= call'.exit_stop
                       ELSE BarLow >= call'.exit_stop
          /\ (call'.active /\ ~Exited) =>
                       IF call.side = "sell"
                       THEN BarHigh > call'.stop_price
                       ELSE BarLow < call'.stop_price
      ]_vars

(* the last bar hit the stop of a buy-side position with its high while its
   low was beyond the stop, after a sell-side exit *)
C38_Witness ==
    /\ call.op = "simulate_operations"
    /\ Len(call.ops) = 3
    /\ call.ops[3].side = "buy"
    /\ call.ops[3].time = call.row - 1
    /\ call.df[call.row - 1].high >= call.exit_stop
    /\ call.df[call.row - 1].low < call.exit_stop


-----------------------------------------------------------------------------
(* C39: when max_ops is given, simulate_operations returns at most max_ops *)
(* operations, for every max_ops >= 0 and every input series               *)
C39_AtMostMaxOps ==
    (call.op = "simulate_operations" /\ call.returned /\ call.max_ops # <<>>)
        => Len(call.ops) <= call.max_ops[1]


-----------------------------------------------------------------------------
(* C40: under split method BOTH every simulation run of the report on the *)
(* best candidate is executed with that candidate's parameters applied to *)
(* TRADING_PARAMS, so under RANK=ROBUST the overall worst-case figure of  *)
(* the report equals the key by which the best candidate was ranked       *)
C40_ReportRunsBestCandidate ==
    (OptimizeDone /\ call.split_method = "BOTH") =>
        /\ call.applied = call.best_cand
        /\ call.rank_mode = "ROBUST" => call.overall = call.key

=============================================================================
